---- MODULE Spec2Model ----
(***************************************************************************)
(* LifeRX Agno Hub: the streaming orchestrator of src/agno-hub/server.py   *)
(* (stream_response), the text extractors it calls (extract_next_actions,  *)
(* extract_assumptions) and the agent registry of src/agno-hub/agents.py.  *)
(*                                                                         *)
(* A Python str is a sequence of fragments.  Every text the code scans,    *)
(* splits, strips or parses (router output, specialist output, agent       *)
(* names) is spelled one character per fragment; a literal the code only   *)
(* copies (a fixed note, an exception message) is a single fragment.       *)
(* String concatenation is \o.  The character U+2022 (bullet) is the       *)
(* fragment "U+2022".                                                      *)
(***************************************************************************)
EXTENDS Integers, Sequences, FiniteSets, TLC

(***************************************************************************)
(* Bounds                                                                  *)
(***************************************************************************)
\* Largest number of lines of a specialist output.
MaxLines == 2
\* Number of requests served concurrently.
NumRequests == 2
\* Largest number of list items under a heading of an extractor input.
MaxItems == 8
\* Largest number of calls made of the functions called on their own.
MaxCalls == 3
\* Largest number of lines of a text given to an extractor on its own.
MaxTextLines == 4

(***************************************************************************)
(* str methods                                                             *)
(***************************************************************************)
UpperCase == <<"A","B","C","D","E","F","G","H","I","J","K","L","M",
               "N","O","P","Q","R","S","T","U","V","W","X","Y","Z">>
LowerCase == <<"a","b","c","d","e","f","g","h","i","j","k","l","m",
               "n","o","p","q","r","s","t","u","v","w","x","y","z">>
Digits == {"0","1","2","3","4","5","6","7","8","9"}
\* str.strip() and the regex class \s: the whitespace characters.
Whitespace == {" ", "\n", "\t", "\r"}

\* str.lower(), one character.
LowerChar(c) ==
    IF \E k \in 1..26 : UpperCase[k] = c
    THEN LowerCase[CHOOSE k \in 1..26 : UpperCase[k] = c]
    ELSE c

\* str.lower()
Lower(s) == [k \in 1..Len(s) |-> LowerChar(s[k])]

\* Index of the first character of s outside chars, Len(s)+1 when none.
FirstOutside(s, chars) ==
    IF \A k \in 1..Len(s) : s[k] \in chars
    THEN Len(s) + 1
    ELSE CHOOSE k \in 1..Len(s) :
            /\ s[k] \notin chars
            /\ \A j \in 1..(k-1) : s[j] \in chars

\* Index of the last character of s outside chars, 0 when none.
LastOutside(s, chars) ==
    IF \A k \in 1..Len(s) : s[k] \in chars
    THEN 0
    ELSE CHOOSE k \in 1..Len(s) :
            /\ s[k] \notin chars
            /\ \A j \in (k+1)..Len(s) : s[j] \in chars

\* str.lstrip(chars)
LStrip(s, chars) == SubSeq(s, FirstOutside(s, chars), Len(s))

\* str.rstrip(chars)
RStrip(s, chars) == SubSeq(s, 1, LastOutside(s, chars))

\* str.strip(chars)
StripChars(s, chars) == RStrip(LStrip(s, chars), chars)

\* str.strip()
Strip(s) == StripChars(s, Whitespace)

\* str.startswith(p)
StartsWith(s, p) == Len(p) <= Len(s) /\ SubSeq(s, 1, Len(p)) = p

\* str.endswith(p)
EndsWith(s, p) ==
    Len(p) <= Len(s) /\ SubSeq(s, Len(s) - Len(p) + 1, Len(s)) = p

\* sub in s
Contains(s, sub) ==
    \E k \in 0..(Len(s) - Len(sub)) : SubSeq(s, k + 1, k + Len(sub)) = sub

\* str.split(sep) for a one-character sep: never empty, "" gives [""].
RECURSIVE Split(_, _)
Split(s, sep) ==
    IF \A k \in 1..Len(s) : s[k] # sep
    THEN <<s>>
    ELSE LET p == CHOOSE k \in 1..Len(s) :
                      s[k] = sep /\ \A j \in 1..(k-1) : s[j] # sep
         IN  <<SubSeq(s, 1, p - 1)>> \o Split(SubSeq(s, p + 1, Len(s)), sep)

\* str.split(sep, 1): at most one split.
SplitOnce(s, sep) ==
    IF \A k \in 1..Len(s) : s[k] # sep
    THEN <<s>>
    ELSE LET p == CHOOSE k \in 1..Len(s) :
                      s[k] = sep /\ \A j \in 1..(k-1) : s[j] # sep
         IN  <<SubSeq(s, 1, p - 1), SubSeq(s, p + 1, Len(s))>>

\* sep.join(parts)
RECURSIVE Join(_, _)
Join(parts, sep) ==
    IF parts = <<>> THEN <<>>
    ELSE IF Len(parts) = 1 THEN parts[1]
    ELSE parts[1] \o <<sep>> \o Join(Tail(parts), sep)

\* Concatenation of a list of strings.
RECURSIVE Concat(_)
Concat(parts) ==
    IF parts = <<>> THEN <<>> ELSE parts[1] \o Concat(Tail(parts))

\* Length of the match of the regex ^[\d]+[.\)]\s* at the start of s,
\* 0 when it does not match (a match is at least two characters long).
NumberedPrefixLen(s) ==
    LET d == FirstOutside(s, Digits) - 1
    IN  IF d >= 1 /\ d < Len(s) /\ s[d + 1] \in {".", ")"}
        THEN d + 1 + (FirstOutside(SubSeq(s, d + 2, Len(s)), Whitespace) - 1)
        ELSE 0

(***************************************************************************)
(* Text extractors                                                         *)
(***************************************************************************)
NextActionPhrase == <<"n","e","x","t"," ","a","c","t","i","o","n">>
NextStepPhrase == <<"n","e","x","t"," ","s","t","e","p">>
AssumptionPhrase == <<"a","s","s","u","m","p","t","i","o","n">>
\* The tuple ('-', '*', U+2022) of str.startswith.
BulletMarkers == {"-", "*", "U+2022"}
\* The argument '-*U+2022 ' of str.lstrip.
MarkerChars == {"-", "*", "U+2022", " "}
\* The caps actions[:5] and assumptions[:5].
MaxActions == 5
MaxAssumptions == 5

\* Variant: the whole list, no cap.
Take_All(lst, n) == lst

\* lst[:n]
Take(lst, n) == SubSeq(lst, 1, IF Len(lst) < n THEN Len(lst) ELSE n)

\* line_lower of both extractors.
LineLower(line) == Strip(Lower(line))

\* The heading test of extract_next_actions.
IsActionsHeading(line) ==
    \/ Contains(LineLower(line), NextActionPhrase)
    \/ Contains(LineLower(line), NextStepPhrase)

\* The list-item test of extract_next_actions on a stripped line.
IsListItem(stripped) ==
    \/ NumberedPrefixLen(stripped) > 0
    \/ (stripped # <<>> /\ stripped[1] \in BulletMarkers)

\* The action a list-item line yields: re.sub of the numbered prefix,
\* then lstrip('-*U+2022 ') and strip().
ListItemAction(stripped) ==
    Strip(LStrip(SubSeq(stripped, NumberedPrefixLen(stripped) + 1,
                        Len(stripped)), MarkerChars))

\* The bold-line test of extract_next_actions on a stripped line.
IsBoldLine(stripped) ==
    StartsWith(stripped, <<"*","*">>) /\ EndsWith(stripped, <<"*","*">>)

\* The action a bold line yields: strip('*') then strip().
BoldLineAction(stripped) == Strip(StripChars(stripped, {"*"}))

\* What one in-section line adds to actions: <<action>> or <<>>.
ActionOfLine(line) ==
    LET stripped == Strip(line)
    IN  IF stripped = <<>> THEN <<>>
        ELSE IF IsListItem(stripped)
             THEN (IF ListItemAction(stripped) # <<>>
                   THEN <<ListItemAction(stripped)>> ELSE <<>>)
        ELSE IF IsBoldLine(stripped)
             THEN (IF BoldLineAction(stripped) # <<>>
                   THEN <<BoldLineAction(stripped)>> ELSE <<>>)
        ELSE <<>>

\* after_colon of a heading line, empty when the line has no colon.
AfterColon(line) ==
    IF Contains(line, <<":">>) THEN Strip(SplitOnce(line, ":")[2]) ELSE <<>>

\* Variant: the text after the colon of a heading line is recorded as an
\* action, unless it starts with '-'.
RECURSIVE ActionsLoop_SameLineAction(_, _, _, _)
ActionsLoop_SameLineAction(lines, k, in_actions, actions) ==
    IF k > Len(lines) THEN actions
    ELSE IF IsActionsHeading(lines[k])
         THEN ActionsLoop_SameLineAction(lines, k + 1, TRUE,
                 IF AfterColon(lines[k]) # <<>> /\ AfterColon(lines[k])[1] # "-"
                 THEN Append(actions, AfterColon(lines[k]))
                 ELSE actions)
    ELSE IF in_actions
         THEN ActionsLoop_SameLineAction(lines, k + 1, in_actions,
                                         actions \o ActionOfLine(lines[k]))
    ELSE ActionsLoop_SameLineAction(lines, k + 1, in_actions, actions)

\* Variant: a line starting with '#' closes the section.
RECURSIVE ActionsLoop_ClosesOnHeader(_, _, _, _)
ActionsLoop_ClosesOnHeader(lines, k, in_actions, actions) ==
    IF k > Len(lines) THEN actions
    ELSE IF IsActionsHeading(lines[k])
         THEN ActionsLoop_ClosesOnHeader(lines, k + 1, TRUE, actions)
    ELSE IF in_actions /\ StartsWith(Strip(lines[k]), <<"#">>)
         THEN ActionsLoop_ClosesOnHeader(lines, k + 1, FALSE, actions)
    ELSE IF in_actions
         THEN ActionsLoop_ClosesOnHeader(lines, k + 1, in_actions,
                                         actions \o ActionOfLine(lines[k]))
    ELSE ActionsLoop_ClosesOnHeader(lines, k + 1, in_actions, actions)

\* The for loop of extract_next_actions from line k on.
RECURSIVE ActionsLoop(_, _, _, _)
ActionsLoop(lines, k, in_actions, actions) ==
    IF k > Len(lines) THEN actions
    ELSE IF IsActionsHeading(lines[k])
         THEN ActionsLoop(lines, k + 1, TRUE, actions)
    ELSE IF in_actions
         THEN ActionsLoop(lines, k + 1, in_actions,
                          actions \o ActionOfLine(lines[k]))
    ELSE ActionsLoop(lines, k + 1, in_actions, actions)

\* Variant: the section is taken as open from the first line on.
extract_next_actions_SectionOpen(content) ==
    IF content = <<>> THEN <<>>
    ELSE Take(ActionsLoop(Split(content, "\n"), 1, TRUE, <<>>), MaxActions)

extract_next_actions(content) ==
    IF content = <<>> THEN <<>>
    ELSE Take(ActionsLoop(Split(content, "\n"), 1, FALSE, <<>>), MaxActions)

\* What one in-section line adds to assumptions: <<assumption>> or <<>>.
AssumptionOfLine(line) ==
    LET stripped == Strip(line)
    IN  IF stripped = <<>> THEN <<>>
        ELSE IF stripped[1] \in BulletMarkers
                  /\ Strip(LStrip(stripped, MarkerChars)) # <<>>
             THEN <<Strip(LStrip(stripped, MarkerChars))>>
        ELSE <<>>

\* Variant: a line with 'next step' closes the section too.
RECURSIVE AssumptionsLoop_NextStepCloses(_, _, _, _)
AssumptionsLoop_NextStepCloses(lines, k, in_assumptions, assumptions) ==
    IF k > Len(lines) THEN assumptions
    ELSE IF Contains(LineLower(lines[k]), AssumptionPhrase)
         THEN AssumptionsLoop_NextStepCloses(lines, k + 1, TRUE, assumptions)
    ELSE IF in_assumptions /\ StartsWith(Strip(lines[k]), <<"#">>)
         THEN AssumptionsLoop_NextStepCloses(lines, k + 1, FALSE, assumptions)
    ELSE IF in_assumptions /\ IsActionsHeading(lines[k])
         THEN AssumptionsLoop_NextStepCloses(lines, k + 1, FALSE, assumptions)
    ELSE IF in_assumptions
         THEN AssumptionsLoop_NextStepCloses(lines, k + 1, in_assumptions,
                  assumptions \o AssumptionOfLine(lines[k]))
    ELSE AssumptionsLoop_NextStepCloses(lines, k + 1, in_assumptions,
                                        assumptions)

\* The for loop of extract_assumptions from line k on.
RECURSIVE AssumptionsLoop(_, _, _, _)
AssumptionsLoop(lines, k, in_assumptions, assumptions) ==
    IF k > Len(lines) THEN assumptions
    ELSE IF Contains(LineLower(lines[k]), AssumptionPhrase)
         THEN AssumptionsLoop(lines, k + 1, TRUE, assumptions)
    ELSE IF in_assumptions /\ StartsWith(Strip(lines[k]), <<"#">>)
         THEN AssumptionsLoop(lines, k + 1, FALSE, assumptions)
    ELSE IF in_assumptions /\ Contains(LineLower(lines[k]), NextActionPhrase)
         THEN AssumptionsLoop(lines, k + 1, FALSE, assumptions)
    ELSE IF in_assumptions
         THEN AssumptionsLoop(lines, k + 1, in_assumptions,
                              assumptions \o AssumptionOfLine(lines[k]))
    ELSE AssumptionsLoop(lines, k + 1, in_assumptions, assumptions)

\* Variant: the section is taken as open from the first line on.
extract_assumptions_SectionOpen(content) ==
    IF content = <<>> THEN <<>>
    ELSE Take(AssumptionsLoop(Split(content, "\n"), 1, TRUE, <<>>),
              MaxAssumptions)

extract_assumptions(content) ==
    IF content = <<>> THEN <<>>
    ELSE Take(AssumptionsLoop(Split(content, "\n"), 1, FALSE, <<>>),
              MaxAssumptions)

(***************************************************************************)
(* Python values                                                           *)
(***************************************************************************)
PyStr(s) == [t |-> "str", v |-> s]
PyNone == [t |-> "NoneType", v |-> <<>>]
PyInt(digits) == [t |-> "int", v |-> digits]
PyList == [t |-> "list", v |-> <<>>]
\* A dict as the sequence of its <<key, value>> items, keys being strs.
PyDict(items) == [t |-> "dict", v |-> items]

\* str(x) and the f-string conversion {x}.
Format(x) ==
    IF x.t \in {"str", "int"} THEN x.v
    ELSE IF x.t = "NoneType" THEN <<"None">>
    ELSE IF x.t = "list" THEN <<"[]">>
    ELSE <<"{...}">>

\* dict.get(key, default): the last item with that key wins.
DictGet(d, key, default) ==
    IF \E k \in 1..Len(d.v) : d.v[k][1] = key
    THEN d.v[CHOOSE k \in 1..Len(d.v) :
                 /\ d.v[k][1] = key
                 /\ \A j \in (k+1)..Len(d.v) : d.v[j][1] # key][2]
    ELSE default

(***************************************************************************)
(* json.loads, on JSON texts without whitespace, escapes or nesting: a     *)
(* scalar (null, an integer, a string), the empty array, or an object      *)
(* whose values are scalars and whose strings hold no quote, comma or      *)
(* colon.  Anything else is a JSONDecodeError.                             *)
(***************************************************************************)
Quote == "\""
NullText == <<"n","u","l","l">>

IsJsonString(s) ==
    /\ Len(s) >= 2
    /\ s[1] = Quote
    /\ s[Len(s)] = Quote
    /\ \A k \in 2..(Len(s) - 1) : s[k] # Quote

IsJsonInt(s) ==
    /\ Len(s) >= 1
    /\ \A k \in 1..Len(s) : s[k] \in Digits
    /\ (Len(s) > 1 => s[1] # "0")

IsJsonScalar(s) == s = NullText \/ IsJsonString(s) \/ IsJsonInt(s)

JsonScalar(s) ==
    IF s = NullText THEN PyNone
    ELSE IF IsJsonString(s) THEN PyStr(SubSeq(s, 2, Len(s) - 1))
    ELSE PyInt(s)

IsJsonMember(m) ==
    LET parts == SplitOnce(m, ":")
    IN  /\ Len(parts) = 2
        /\ IsJsonString(parts[1])
        /\ IsJsonScalar(parts[2])

JsonMember(m) ==
    LET parts == SplitOnce(m, ":")
    IN  << SubSeq(parts[1], 2, Len(parts[1]) - 1), JsonScalar(parts[2]) >>

IsJsonObject(s) ==
    /\ Len(s) >= 2
    /\ s[1] = "{"
    /\ s[Len(s)] = "}"
    /\ \/ Len(s) = 2
       \/ LET members == Split(SubSeq(s, 2, Len(s) - 1), ",")
          IN  \A k \in 1..Len(members) : IsJsonMember(members[k])

JsonObject(s) ==
    IF Len(s) = 2 THEN PyDict(<<>>)
    ELSE LET members == Split(SubSeq(s, 2, Len(s) - 1), ",")
         IN  PyDict([k \in 1..Len(members) |-> JsonMember(members[k])])

\* json.loads(s): ok is FALSE when it raises json.JSONDecodeError.
JsonLoads(s) ==
    IF IsJsonObject(s) THEN [ok |-> TRUE, value |-> JsonObject(s)]
    ELSE IF s = <<"[", "]">> THEN [ok |-> TRUE, value |-> PyList]
    ELSE IF IsJsonScalar(s) THEN [ok |-> TRUE, value |-> JsonScalar(s)]
    ELSE [ok |-> FALSE, value |-> PyNone]

(***************************************************************************)
(* Agent registry (agents.py)                                              *)
(***************************************************************************)
Hub == <<"H","u","b">>
Ops == <<"O","p","s">>
Content == <<"C","o","n","t","e","n","t">>
Growth == <<"G","r","o","w","t","h">>
Systems == <<"S","y","s","t","e","m","s">>

\* The registry, in insertion order; an agent is identified by its key.
AGENTS == <<Hub, Ops, Content, Growth, Systems>>

\* The value None of get_agent_by_name.
NoAgent == <<>>

\* get_agent_by_name(name): the first agent whose key equals name
\* case-insensitively, or None.
get_agent_by_name(name) ==
    IF \E k \in 1..Len(AGENTS) : Lower(AGENTS[k]) = Lower(name)
    THEN AGENTS[CHOOSE k \in 1..Len(AGENTS) :
                    /\ Lower(AGENTS[k]) = Lower(name)
                    /\ \A j \in 1..(k-1) : Lower(AGENTS[j]) # Lower(name)]
    ELSE NoAgent

AGNO_CONTRACT_VERSION == <<"v1">>

(***************************************************************************)
(* Inputs: what the generation engine gives back                           *)
(***************************************************************************)
\* The result object of Agent.arun, or the exception it raised.
Returned(has_content, content) ==
    [kind |-> "return", has_content |-> has_content, content |-> content,
     cls |-> "", msg |-> <<>>]
Raised(cls, msg) ==
    [kind |-> "raise", has_content |-> FALSE, content |-> PyNone,
     cls |-> cls, msg |-> msg]
\* A local that has not been assigned yet.
Unset ==
    [kind |-> "unset", has_content |-> FALSE, content |-> PyNone,
     cls |-> "", msg |-> <<>>]

AgentKey == <<"a","g","e","n","t">>
ReasonKey == <<"r","e","a","s","o","n">>
SomeReason == <<"s","o","p">>

JStr(s) == <<Quote>> \o s \o <<Quote>>
JMember(key, value) == JStr(key) \o <<":">> \o value
JObject1(m) == <<"{">> \o m \o <<"}">>
JObject2(m1, m2) == <<"{">> \o m1 \o <<",">> \o m2 \o <<"}">>

\* Router texts: the four specialists, names outside the closed set, a
\* missing agent key, plain text, and JSON that is not an object.
RouterTexts ==
    { JObject2(JMember(AgentKey, JStr(Ops)), JMember(ReasonKey, JStr(SomeReason))),
      JObject1(JMember(AgentKey, JStr(Content))),
      JObject1(JMember(AgentKey, JStr(Growth))),
      JObject2(JMember(ReasonKey, JStr(SomeReason)), JMember(AgentKey, JStr(Systems))),
      JObject2(JMember(AgentKey, JStr(<<"U","n","k","n","o","w","n">>)),
               JMember(ReasonKey, JStr(SomeReason))),
      JObject1(JMember(AgentKey, JStr(Hub))),
      JObject1(JMember(AgentKey, JStr(<<"o","p","s">>))),
      JObject1(JMember(AgentKey, NullText)),
      JObject1(JMember(ReasonKey, JStr(SomeReason))),
      <<"{", "}">>,
      <<"O","p","s"," ","t","e","a","m">>,
      <<>>,
      <<"{", Quote, "a", "g", "e", "n", "t", Quote, ":">>,
      <<"[", "]">>,
      <<"7">>,
      JStr(Ops),
      NullText }

HubResults ==
    { Returned(FALSE, PyNone), Returned(TRUE, PyNone) }
        \cup { Returned(TRUE, PyStr(text)) : text \in RouterTexts }

\* Failures of a generation-engine call: ordinary exceptions.
EngineFailures ==
    { Raised("RuntimeError", <<"engine unavailable">>),
      Raised("TimeoutError", <<>>) }

\* Lines a specialist output is made of.
LineLib ==
    { <<>>,
      <<"N","e","x","t"," ","a","c","t","i","o","n","s",":">>,
      <<"1","."," ","d","o"," ","i","t">>,
      <<"-"," ","c">>,
      <<"A","s","s","u","m","p","t","i","o","n","s",":">>,
      <<" ","x"," "," ","y"," ">>,
      <<"#","#"," ","H">>,
      <<"*","*","B","*","*">> }

\* Specialist outputs: one to MaxLines lines joined by newlines.
Contents ==
    { Join(ls, "\n") :
        ls \in UNION { [1..n -> LineLib] : n \in 1..MaxLines } }

AgentResults ==
    { Returned(FALSE, PyNone), Returned(TRUE, PyNone) }
        \cup { Returned(TRUE, PyStr(text)) : text \in Contents }

(***************************************************************************)
(* Inputs: the inbound request of POST /run                                *)
(***************************************************************************)
\* One element of messages: a dict with or without a content key.
Message(has_content, content) ==
    [has_content |-> has_content, content |-> content]

\* A request.  auth is "dev" when no INTERNAL_SHARED_SECRET is
\* configured, else "match" or "mismatch" for the X-Internal-Secret
\* header; body is "invalid" when request.json() raises JSONDecodeError,
\* "object" when it gives a dict and "list" when it gives a JSON array;
\* has_messages is FALSE when the body has no messages key.
Request(auth, body, has_messages, messages) ==
    [auth |-> auth, body |-> body, has_messages |-> has_messages,
     messages |-> messages]

SopMessage == <<"What's our SOP for guest follow-up?">>
OtherMessage == <<"Draft the newsletter intro">>

DefaultRequest ==
    Request("dev", "object", TRUE, <<Message(TRUE, SopMessage)>>)

Requests ==
    { DefaultRequest,
      Request("match", "object", TRUE,
              <<Message(TRUE, SopMessage), Message(TRUE, OtherMessage)>>),
      Request("match", "object", TRUE,
              <<Message(TRUE, OtherMessage), Message(FALSE, <<>>)>>),
      Request("dev", "object", TRUE,
              <<Message(FALSE, <<>>), Message(TRUE, <<"hello">>)>>),
      Request("match", "object", TRUE, <<Message(TRUE, <<>>)>>),
      Request("dev", "object", TRUE, <<>>),
      Request("match", "object", FALSE, <<>>),
      Request("dev", "invalid", FALSE, <<>>),
      Request("dev", "list", FALSE, <<>>),
      Request("match", "list", FALSE, <<>>),
      Request("mismatch", "object", TRUE, <<Message(TRUE, SopMessage)>>),
      Request("mismatch", "object", FALSE, <<>>) }

\* Lines 97 and 110: messages[-1].get("content", "").
LastContent(req) ==
    IF req.messages[Len(req.messages)].has_content
    THEN req.messages[Len(req.messages)].content
    ELSE <<>>

\* What run answers.
NoResponse == [status |-> 0, detail |-> <<>>]
HTTPException(status, detail) == [status |-> status, detail |-> detail]
StreamingResponse == [status |-> 200, detail |-> <<>>]
\* What the framework answers when run lets an exception out.
InternalServerError ==
    [status |-> 500, detail |-> <<"Internal Server Error">>]

(***************************************************************************)
(* stream_response: the pieces of its body                                 *)
(***************************************************************************)
\* Subclasses of Exception among the classes that can be raised here;
\* asyncio.CancelledError and GeneratorExit derive from BaseException only.
ExceptionClasses == {"RuntimeError", "TimeoutError", "AttributeError"}

\* Variant: the clause is `except RuntimeError as e`.
ExceptExceptionCatches_RuntimeErrorOnly(cls) == cls = "RuntimeError"

\* Variant: the clause is `except BaseException as e`.
ExceptExceptionCatches_All(cls) == TRUE

\* Whether the clause `except Exception as e` catches an exception of cls.
ExceptExceptionCatches(cls) == cls \in ExceptionClasses

\* Variant: JSON that is not an object is taken as plain text too.
RoutingDecision_NonObjectAsText(rr, agent_name0) ==
    IF ~rr.has_content \/ rr.content.t # "str"
    THEN [raised |-> FALSE, msg |-> <<>>,
          agent_name |-> agent_name0, routing_reason |-> PyStr(<<>>)]
    ELSE LET parsed == JsonLoads(rr.content.v)
         IN  IF parsed.ok /\ parsed.value.t = "dict"
             THEN [raised |-> FALSE, msg |-> <<>>,
                   agent_name |-> DictGet(parsed.value, AgentKey, PyStr(Ops)),
                   routing_reason |->
                       DictGet(parsed.value, ReasonKey, PyStr(<<>>))]
             ELSE [raised |-> FALSE, msg |-> <<>>,
                   agent_name |-> agent_name0, routing_reason |-> rr.content]

\* Variant: a JSONDecodeError is not caught at line 150.
RoutingDecision_DecodeErrorRaises(rr, agent_name0) ==
    IF ~rr.has_content \/ rr.content.t # "str"
    THEN [raised |-> FALSE, msg |-> <<>>,
          agent_name |-> agent_name0, routing_reason |-> PyStr(<<>>)]
    ELSE LET parsed == JsonLoads(rr.content.v)
         IN  IF parsed.ok /\ parsed.value.t = "dict"
             THEN [raised |-> FALSE, msg |-> <<>>,
                   agent_name |-> DictGet(parsed.value, AgentKey, PyStr(Ops)),
                   routing_reason |->
                       DictGet(parsed.value, ReasonKey, PyStr(<<>>))]
             ELSE [raised |-> TRUE, msg |-> <<"Expecting value">>,
                   agent_name |-> agent_name0, routing_reason |-> PyStr(<<>>)]

\* Lines 141-152: the routing decision taken from route_result.  raised
\* is TRUE when parsed.get fails because parsed is not a dict.
RoutingDecision(rr, agent_name0) ==
    IF ~rr.has_content \/ rr.content.t # "str"
    THEN [raised |-> FALSE, msg |-> <<>>,
          agent_name |-> agent_name0, routing_reason |-> PyStr(<<>>)]
    ELSE LET parsed == JsonLoads(rr.content.v)
         IN  IF ~parsed.ok
             THEN [raised |-> FALSE, msg |-> <<>>,
                   agent_name |-> agent_name0, routing_reason |-> rr.content]
             ELSE IF parsed.value.t = "dict"
             THEN [raised |-> FALSE, msg |-> <<>>,
                   agent_name |-> DictGet(parsed.value, AgentKey, PyStr(Ops)),
                   routing_reason |->
                       DictGet(parsed.value, ReasonKey, PyStr(<<>>))]
             ELSE [raised |-> TRUE,
                   msg |-> <<"'", parsed.value.t,
                             "' object has no attribute 'get'">>,
                   agent_name |-> agent_name0, routing_reason |-> PyStr(<<>>)]

\* Variant: a name is valid when the registry knows it.
IsValidAgentName_ByRegistry(name) ==
    name.t = "str" /\ get_agent_by_name(name.v) # NoAgent

\* Line 155: the closed set of specialist names.
IsValidAgentName(name) ==
    name.t = "str" /\ name.v \in {Ops, Content, Growth, Systems}

UnknownAgentNote(name) ==
    <<"Unknown agent '">> \o Format(name)
        \o <<"' requested, defaulting to Ops">>
LookupFailedNote == <<"Agent lookup failed, defaulting to Ops">>

\* Lines 154-164: validation of the name and lookup of the agent.
Dispatch(name, notes) ==
    LET validated == IF IsValidAgentName(name) THEN name ELSE PyStr(Ops)
        notes1 == IF IsValidAgentName(name) THEN notes
                  ELSE Append(notes, UnknownAgentNote(name))
    IN  IF get_agent_by_name(validated.v) = NoAgent
        THEN [agent_name |-> PyStr(Ops), agent |-> get_agent_by_name(Ops),
              assumptions |-> Append(notes1, LookupFailedNote)]
        ELSE [agent_name |-> validated,
              agent |-> get_agent_by_name(validated.v),
              assumptions |-> notes1]

\* Line 167: agent_prefix.
AgentPrefix(name) == <<"[">> \o Format(name) \o <<"]", " ">>

\* Variant: a space after every word, the last one too.
Chunk_AlwaysSpace(words, k) == words[k] \o <<" ">>

\* Line 183: the chunk of the k-th word (k from 1).
Chunk(words, k) ==
    words[k] \o (IF k < Len(words) THEN <<" ">> ELSE <<>>)

SynthesizedAction ==
    <<"Review the response and determine appropriate follow-up">>
SynthesisNote == <<"No explicit next actions found in agent response">>

\* Variant: no synthesized action.
EnsureNextActions_NoSynthesis(extracted) == extracted

\* Lines 194-195: next_actions is never left empty.
EnsureNextActions(extracted) ==
    IF extracted = <<>> THEN <<SynthesizedAction>> ELSE extracted

\* Lines 191-196: assumptions after extraction.
AssumptionsAfterExtraction(notes, text) ==
    (notes \o extract_assumptions(text))
        \o (IF extract_next_actions(text) = <<>>
            THEN <<SynthesisNote>> ELSE <<>>)

Delta(text) == [type |-> "delta", content |-> text]
Sentinel == [type |-> "[DONE]"]

\* Variant: the assumptions key is always set.
FinalEvent_AlwaysAssumptions(name, text, actions, notes) ==
    [type |-> "final",
     payload |->
        [keys |-> {"version", "agent", "content", "next_actions",
                   "assumptions"},
         version |-> AGNO_CONTRACT_VERSION,
         agent |-> Format(name),
         content |-> text,
         next_actions |-> actions,
         assumptions |-> notes]]

\* Lines 199-211: final_event; keys is the set of keys of the payload.
FinalEvent(name, text, actions, notes) ==
    [type |-> "final",
     payload |->
        [keys |-> {"version", "agent", "content", "next_actions"}
                    \cup (IF notes # <<>> THEN {"assumptions"} ELSE {}),
         version |-> AGNO_CONTRACT_VERSION,
         agent |-> Format(name),
         content |-> text,
         next_actions |-> actions,
         assumptions |-> notes]]

\* Variant: the message without the 'Error: ' prefix.
ErrorContent_Bare(msg) == msg

\* Line 219: error_content.
ErrorContent(msg) == <<"Error: ">> \o msg

ErrorNote == <<"An error occurred during processing">>
RemediationActions ==
    << <<"Retry the request">>,
       <<"Check the Hub logs for details">>,
       <<"Contact support if the issue persists">> >>

\* Variant: the error payload names the default specialist.
ErrorFinal_DefaultAgent(msg) ==
    [type |-> "final",
     payload |->
        [keys |-> {"version", "agent", "content", "assumptions",
                   "next_actions"},
         version |-> AGNO_CONTRACT_VERSION,
         agent |-> Ops,
         content |-> <<"Error: ">> \o msg,
         next_actions |-> RemediationActions,
         assumptions |-> <<ErrorNote, msg>>]]

\* Variant: the error payload has no version key.
ErrorFinal_NoVersion(msg) ==
    [type |-> "final",
     payload |->
        [keys |-> {"agent", "content", "assumptions", "next_actions"},
         version |-> <<>>,
         agent |-> Systems,
         content |-> <<"Error: ">> \o msg,
         next_actions |-> RemediationActions,
         assumptions |-> <<ErrorNote, msg>>]]

\* Lines 224-237: error_final.
ErrorFinal(msg) ==
    [type |-> "final",
     payload |->
        [keys |-> {"version", "agent", "content", "assumptions",
                   "next_actions"},
         version |-> AGNO_CONTRACT_VERSION,
         agent |-> Systems,
         content |-> ErrorContent(msg),
         next_actions |-> RemediationActions,
         assumptions |-> <<ErrorNote, msg>>]]

(***************************************************************************)
(* stream_response: the generator as a state machine.  pc is the point at  *)
(* which the generator is suspended; an action runs it from one            *)
(* suspension point (an await or a yield) to the next.                     *)
(***************************************************************************)
VARIABLES
    pc,               \* where the generator is suspended
    events,           \* the frames yielded so far, in order
    full_content,     \* local full_content
    agent_name,       \* local agent_name
    assumptions,      \* local assumptions
    routing_reason,   \* local routing_reason
    route_result,     \* what hub.arun gave back
    agent,            \* local agent: the registry key of the target agent
    agent_result,     \* what agent.arun gave back
    response_content, \* local response_content
    words,            \* local words
    i,                \* number of words whose chunk has been yielded
    next_actions,     \* local next_actions
    error_msg,        \* local error_msg of the handler
    calls,            \* registry keys of the agents whose arun was called
    cancelled,        \* the consumer has disconnected
    escaped,          \* class of the exception that left the generator
    message,          \* parameter message of stream_response
    call_args,        \* the argument of each arun call, in call order
    request,          \* the inbound POST /run request
    response,         \* what run answered: status 0 while it has not
    frames,           \* the generator frames of the requests not running
    cur,              \* the request whose generator is running
    arg,              \* argument of the function called on its own
    ret               \* what the calls of that function returned, in order

\* The locals and the trace of one stream_response generator.
generator == <<pc, events, full_content, agent_name, assumptions,
               routing_reason, route_result, agent, agent_result,
               response_content, words, i, next_actions, error_msg, calls,
               cancelled, escaped, message, call_args>>

\* What a step of a generator leaves alone.
outside == <<request, response, frames, cur, arg, ret>>

vars == <<generator, outside>>

\* Suspension points inside the try block.
AwaitPoints == {"await_hub", "await_agent", "sleep"}
TryYieldPoints == {"yield_prefix", "yield_chunk", "yield_final", "yield_done"}
\* Suspension points inside the except block.
HandlerYieldPoints ==
    {"yield_error_delta", "yield_error_final", "yield_error_done"}

\* The frame of a generator that stream_response(msg, context) has just
\* constructed (lines 132-134 run at its first step and have no effect
\* the caller can see).
NewFrame(msg) ==
    [pc |-> "start", events |-> <<>>, full_content |-> <<>>,
     agent_name |-> PyStr(Ops), assumptions |-> <<>>,
     routing_reason |-> PyNone, route_result |-> Unset, agent |-> NoAgent,
     agent_result |-> Unset, response_content |-> <<>>, words |-> <<>>,
     i |-> 0, next_actions |-> <<>>, error_msg |-> <<>>, calls |-> <<>>,
     cancelled |-> FALSE, escaped |-> "none", message |-> msg,
     call_args |-> <<>>]

\* The frame of the running generator.
CurrentFrame ==
    [pc |-> pc, events |-> events, full_content |-> full_content,
     agent_name |-> agent_name, assumptions |-> assumptions,
     routing_reason |-> routing_reason, route_result |-> route_result,
     agent |-> agent, agent_result |-> agent_result,
     response_content |-> response_content, words |-> words, i |-> i,
     next_actions |-> next_actions, error_msg |-> error_msg,
     calls |-> calls, cancelled |-> cancelled, escaped |-> escaped,
     message |-> message, call_args |-> call_args]

\* The running generator has frame f.
Running(f) ==
    /\ pc = f.pc
    /\ events = f.events
    /\ full_content = f.full_content
    /\ agent_name = f.agent_name
    /\ assumptions = f.assumptions
    /\ routing_reason = f.routing_reason
    /\ route_result = f.route_result
    /\ agent = f.agent
    /\ agent_result = f.agent_result
    /\ response_content = f.response_content
    /\ words = f.words
    /\ i = f.i
    /\ next_actions = f.next_actions
    /\ error_msg = f.error_msg
    /\ calls = f.calls
    /\ cancelled = f.cancelled
    /\ escaped = f.escaped
    /\ message = f.message
    /\ call_args = f.call_args

\* No function is being called on its own.
NoArg == <<>>

\* One request: run has accepted DefaultRequest and constructed the
\* generator, which has not started.
Init ==
    /\ Running(NewFrame(LastContent(DefaultRequest)))
    /\ request = DefaultRequest
    /\ response = StreamingResponse
    /\ frames = <<>>
    /\ cur = 1
    /\ arg = NoArg
    /\ ret = <<>>

\* An exception of class cls and message msg is raised inside the try
\* block: lines 216-221 when the except clause catches it, otherwise it
\* leaves the generator.
RaiseInTry(cls, msg) ==
    IF ExceptExceptionCatches(cls)
    THEN /\ error_msg' = msg
         /\ events' = Append(events, Delta(ErrorContent(msg)))
         /\ pc' = "yield_error_delta"
         /\ UNCHANGED escaped
    ELSE /\ pc' = "raised"
         /\ escaped' = cls
         /\ UNCHANGED <<events, error_msg>>

\* Lines 188-213: extraction and the final event.
Finalize(text) ==
    LET actions == EnsureNextActions(extract_next_actions(text))
        notes == AssumptionsAfterExtraction(assumptions, text)
    IN  /\ next_actions' = actions
        /\ assumptions' = notes
        /\ events' = Append(events,
                            FinalEvent(agent_name, full_content,
                                       actions, notes))
        /\ pc' = "yield_final"

\* Lines 132-138: the first step runs up to the router call.
Start ==
    /\ pc = "start"
    /\ pc' = "await_hub"
    /\ calls' = Append(calls, Hub)
    /\ UNCHANGED <<events, full_content, agent_name, assumptions,
                   routing_reason, route_result, agent, agent_result,
                   response_content, words, i, next_actions, error_msg,
                   cancelled, escaped>>
    /\ call_args' = Append(call_args, message)
    /\ UNCHANGED <<message, outside>>

\* Lines 138-168: hub.arun returns; routing, validation, lookup and the
\* prefix delta.
HubAnswers(rr) ==
    /\ pc = "await_hub"
    /\ LET decision == RoutingDecision(rr, agent_name)
           target == Dispatch(decision.agent_name, assumptions)
       IN  /\ route_result' = rr
           /\ IF decision.raised
              THEN /\ RaiseInTry("AttributeError", decision.msg)
                   /\ routing_reason' = PyStr(<<>>)
                   /\ UNCHANGED <<agent_name, assumptions, agent>>
              ELSE /\ routing_reason' = decision.routing_reason
                   /\ agent_name' = target.agent_name
                   /\ assumptions' = target.assumptions
                   /\ agent' = target.agent
                   /\ events' = Append(events,
                                       Delta(AgentPrefix(target.agent_name)))
                   /\ pc' = "yield_prefix"
                   /\ UNCHANGED <<error_msg, escaped>>
    /\ UNCHANGED <<full_content, agent_result, response_content, words, i,
                   next_actions, calls, cancelled>>
    /\ UNCHANGED <<message, call_args, outside>>

\* hub.arun returns any of the router outputs.
HubReturns == \E rr \in HubResults : HubAnswers(rr)

\* Line 138: hub.arun raises.
HubRaises ==
    /\ pc = "await_hub"
    /\ \E failure \in EngineFailures :
        /\ route_result' = failure
        /\ RaiseInTry(failure.cls, failure.msg)
    /\ UNCHANGED <<full_content, agent_name, assumptions, routing_reason,
                   agent, agent_result, response_content, words, i,
                   next_actions, calls, cancelled>>
    /\ UNCHANGED <<message, call_args, outside>>

\* Lines 169-172: resumed after the prefix delta, up to the agent call.
ResumePrefix ==
    /\ pc = "yield_prefix"
    /\ full_content' = full_content \o AgentPrefix(agent_name)
    /\ calls' = Append(calls, agent)
    /\ pc' = "await_agent"
    /\ UNCHANGED <<events, agent_name, assumptions, routing_reason,
                   route_result, agent, agent_result, response_content,
                   words, i, next_actions, error_msg, cancelled, escaped>>
    /\ call_args' = Append(call_args, message)
    /\ UNCHANGED <<message, outside>>

\* Lines 172-184: agent.arun returns; a str content is split and its
\* first chunk yielded, any other result goes straight to extraction.
AgentAnswers(ar) ==
    /\ pc = "await_agent"
    /\ agent_result' = ar
    /\ IF ar.has_content /\ ar.content.t = "str"
       THEN /\ response_content' = ar.content.v
            /\ words' = Split(ar.content.v, " ")
            /\ i' = 1
            /\ events' = Append(events, Delta(Chunk(words', 1)))
            /\ pc' = "yield_chunk"
            /\ UNCHANGED <<next_actions, assumptions>>
       ELSE /\ response_content' = <<>>
            /\ Finalize(<<>>)
            /\ UNCHANGED <<words, i>>
    /\ UNCHANGED <<full_content, agent_name, routing_reason, route_result,
                   agent, error_msg, calls, cancelled, escaped>>
    /\ UNCHANGED <<message, call_args, outside>>

\* agent.arun returns any of the specialist outputs.
AgentReturns == \E ar \in AgentResults : AgentAnswers(ar)

\* Variant: a failed agent call is tried once more.
AgentRaises_Retry ==
    /\ pc = "await_agent"
    /\ \E failure \in EngineFailures :
        /\ agent_result' = failure
        /\ IF Len(calls) < 3
           THEN /\ calls' = Append(calls, agent)
                /\ call_args' = Append(call_args, message)
                /\ UNCHANGED <<pc, events, error_msg, escaped>>
           ELSE /\ RaiseInTry(failure.cls, failure.msg)
                /\ UNCHANGED <<calls, call_args>>
    /\ UNCHANGED <<full_content, agent_name, assumptions, routing_reason,
                   route_result, agent, response_content, words, i,
                   next_actions, cancelled>>
    /\ UNCHANGED <<message, outside>>

\* Line 172: agent.arun raises.
AgentRaises ==
    /\ pc = "await_agent"
    /\ \E failure \in EngineFailures :
        /\ agent_result' = failure
        /\ RaiseInTry(failure.cls, failure.msg)
    /\ UNCHANGED <<full_content, agent_name, assumptions, routing_reason,
                   route_result, agent, response_content, words, i,
                   next_actions, calls, cancelled>>
    /\ UNCHANGED <<message, call_args, outside>>

\* Variant: the chunk is yielded but not added to full_content.
ResumeChunk_NoAccumulate ==
    /\ pc = "yield_chunk"
    /\ pc' = "sleep"
    /\ UNCHANGED <<events, full_content, agent_name, assumptions,
                   routing_reason, route_result, agent, agent_result,
                   response_content, words, i, next_actions, error_msg,
                   calls, cancelled, escaped>>
    /\ UNCHANGED <<message, call_args, outside>>

\* Lines 185-186: resumed after a chunk delta, up to the paced delay.
ResumeChunk ==
    /\ pc = "yield_chunk"
    /\ full_content' = full_content \o Chunk(words, i)
    /\ pc' = "sleep"
    /\ UNCHANGED <<events, agent_name, assumptions, routing_reason,
                   route_result, agent, agent_result, response_content,
                   words, i, next_actions, error_msg, calls, cancelled,
                   escaped>>
    /\ UNCHANGED <<message, call_args, outside>>

\* Lines 182-213: the delay is over; the next chunk, or after the last
\* one extraction and the final event.
SleepDone ==
    /\ pc = "sleep"
    /\ IF i < Len(words)
       THEN /\ i' = i + 1
            /\ events' = Append(events, Delta(Chunk(words, i + 1)))
            /\ pc' = "yield_chunk"
            /\ UNCHANGED <<next_actions, assumptions>>
       ELSE /\ Finalize(response_content)
            /\ UNCHANGED i
    /\ UNCHANGED <<full_content, agent_name, routing_reason, route_result,
                   agent, agent_result, response_content, words, error_msg,
                   calls, cancelled, escaped>>
    /\ UNCHANGED <<message, call_args, outside>>

\* Line 214: resumed after the final event, the sentinel.
ResumeFinal ==
    /\ pc = "yield_final"
    /\ events' = Append(events, Sentinel)
    /\ pc' = "yield_done"
    /\ UNCHANGED <<full_content, agent_name, assumptions, routing_reason,
                   route_result, agent, agent_result, response_content,
                   words, i, next_actions, error_msg, calls, cancelled,
                   escaped>>
    /\ UNCHANGED <<message, call_args, outside>>

\* Resumed after the sentinel: the generator returns.
ResumeDone ==
    /\ pc \in {"yield_done", "yield_error_done"}
    /\ pc' = "closed"
    /\ UNCHANGED <<events, full_content, agent_name, assumptions,
                   routing_reason, route_result, agent, agent_result,
                   response_content, words, i, next_actions, error_msg,
                   calls, cancelled, escaped>>
    /\ UNCHANGED <<message, call_args, outside>>

\* Variant: the error payload keeps what was built before the failure,
\* the content streamed so far and the assumptions recorded so far.
ResumeErrorDelta_KeepsPartial ==
    /\ pc = "yield_error_delta"
    /\ events' = Append(events,
          [ErrorFinal(error_msg) EXCEPT
             !.payload.content = full_content \o @,
             !.payload.assumptions = assumptions \o @])
    /\ pc' = "yield_error_final"
    /\ UNCHANGED <<full_content, agent_name, assumptions, routing_reason,
                   route_result, agent, agent_result, response_content,
                   words, i, next_actions, error_msg, calls, cancelled,
                   escaped>>
    /\ UNCHANGED <<message, call_args, outside>>

\* Lines 223-239: resumed after the error delta, the error final event.
ResumeErrorDelta ==
    /\ pc = "yield_error_delta"
    /\ events' = Append(events, ErrorFinal(error_msg))
    /\ pc' = "yield_error_final"
    /\ UNCHANGED <<full_content, agent_name, assumptions, routing_reason,
                   route_result, agent, agent_result, response_content,
                   words, i, next_actions, error_msg, calls, cancelled,
                   escaped>>
    /\ UNCHANGED <<message, call_args, outside>>

\* Line 240: resumed after the error final event, the sentinel.
ResumeErrorFinal ==
    /\ pc = "yield_error_final"
    /\ events' = Append(events, Sentinel)
    /\ pc' = "yield_error_done"
    /\ UNCHANGED <<full_content, agent_name, assumptions, routing_reason,
                   route_result, agent, agent_result, response_content,
                   words, i, next_actions, error_msg, calls, cancelled,
                   escaped>>
    /\ UNCHANGED <<message, call_args, outside>>

\* The consumer disconnects while the generator is suspended: the pending
\* await is cancelled (asyncio.CancelledError), a generator suspended at a
\* yield is closed (GeneratorExit).  Inside the try block the exception
\* meets the except clause; inside the handler nothing catches it.
Cancel ==
    /\ pc \in AwaitPoints \cup TryYieldPoints \cup HandlerYieldPoints
    /\ cancelled' = TRUE
    /\ IF pc \in AwaitPoints
       THEN RaiseInTry("CancelledError", <<>>)
       ELSE IF pc \in TryYieldPoints
       THEN RaiseInTry("GeneratorExit", <<>>)
       ELSE /\ pc' = "raised"
            /\ escaped' = "GeneratorExit"
            /\ UNCHANGED <<events, error_msg>>
    /\ UNCHANGED <<full_content, agent_name, assumptions, routing_reason,
                   route_result, agent, agent_result, response_content,
                   words, i, next_actions, calls>>
    /\ UNCHANGED <<message, call_args, outside>>

Next ==
    \/ Start
    \/ HubReturns
    \/ HubRaises
    \/ ResumePrefix
    \/ AgentReturns
    \/ AgentRaises
    \/ ResumeChunk
    \/ SleepDone
    \/ ResumeFinal
    \/ ResumeDone
    \/ ResumeErrorDelta
    \/ ResumeErrorFinal
    \/ Cancel

Spec == Init /\ [][Next]_vars

\* The steps of a generator whose consumer keeps reading: every step but
\* the disconnection.
Reading ==
    \/ Start
    \/ HubReturns
    \/ HubRaises
    \/ ResumePrefix
    \/ AgentReturns
    \/ AgentRaises
    \/ ResumeChunk
    \/ SleepDone
    \/ ResumeFinal
    \/ ResumeDone
    \/ ResumeErrorDelta
    \/ ResumeErrorFinal

\* asyncio.sleep(0.02) of line 186 is pending: SleepDone is enabled exactly
\* then, both of its branches being without a further condition.
Sleeping == pc = "sleep"

\* WF_vars(SleepDone) by its definition, with Sleeping for
\* ENABLED <<SleepDone>>_vars: a pending delay elapses.
SleepFairness == []<>(~Sleeping) \/ []<><<SleepDone>>_vars

\* What the scheduling guarantees then: the consumer asks for the next
\* frame, an engine call returns or raises, a paced delay elapses.
ReadingFairness ==
    /\ WF_vars(Start)
    /\ WF_vars(HubReturns)
    /\ WF_vars(ResumePrefix)
    /\ WF_vars(AgentReturns)
    /\ WF_vars(ResumeChunk)
    /\ SleepFairness
    /\ WF_vars(ResumeFinal)
    /\ WF_vars(ResumeDone)
    /\ WF_vars(ResumeErrorDelta)
    /\ WF_vars(ResumeErrorFinal)

\* One request whose consumer reads to the end, whose engine calls all
\* return or raise and whose paced delays all elapse.
LiveSpec == Init /\ [][Reading]_vars /\ ReadingFairness

(***************************************************************************)
(* Concurrent requests.  Every POST /run gets a generator of its own       *)
(* (line 119); the event loop runs one of them at a time and changes to    *)
(* another one only while the running one is suspended at an await or a   *)
(* yield.  The generator variables hold the locals of request cur, frames  *)
(* the locals of the suspended ones.                                       *)
(***************************************************************************)
Tasks == 1..NumRequests

\* The message of request r.
TaskMessage(r) == IF r = 1 THEN SopMessage ELSE OtherMessage

\* The entry of frames for the request that is running.
RunningMark == [pc |-> "running"]

\* The locals of request r.
FrameOf(r) == IF r = cur THEN CurrentFrame ELSE frames[r]

\* Router outputs of the concurrent requests: a specialist of the closed
\* set, and a name outside it, which leaves a note in assumptions.
ConcHubResults ==
    { Returned(TRUE, PyStr(JObject1(JMember(AgentKey, JStr(Growth))))),
      Returned(TRUE, PyStr(JObject2(JMember(AgentKey,
                                            JStr(<<"U","n","k","n","o","w","n">>)),
                                    JMember(ReasonKey, JStr(SomeReason))))) }

\* Specialist outputs of the concurrent requests: a list item of two
\* words.
ConcAgentResults == { Returned(TRUE, PyStr(<<"-", " ", "c">>)) }

ConcFailure == Raised("RuntimeError", <<"engine unavailable">>)

ConcInit ==
    /\ Running(NewFrame(TaskMessage(1)))
    /\ request = DefaultRequest
    /\ response = StreamingResponse
    /\ frames = [r \in Tasks |->
                    IF r = 1 THEN RunningMark ELSE NewFrame(TaskMessage(r))]
    /\ cur = 1
    /\ arg = NoArg
    /\ ret = <<>>

\* Variant: assumptions is one list shared by all requests, as a
\* module-level global would be.
Switch_SharedAssumptions(r) ==
    /\ r # cur
    /\ frames' = [frames EXCEPT ![cur] = CurrentFrame, ![r] = RunningMark]
    /\ cur' = r
    /\ pc' = frames[r].pc
    /\ events' = frames[r].events
    /\ full_content' = frames[r].full_content
    /\ agent_name' = frames[r].agent_name
    /\ UNCHANGED assumptions
    /\ routing_reason' = frames[r].routing_reason
    /\ route_result' = frames[r].route_result
    /\ agent' = frames[r].agent
    /\ agent_result' = frames[r].agent_result
    /\ response_content' = frames[r].response_content
    /\ words' = frames[r].words
    /\ i' = frames[r].i
    /\ next_actions' = frames[r].next_actions
    /\ error_msg' = frames[r].error_msg
    /\ calls' = frames[r].calls
    /\ cancelled' = frames[r].cancelled
    /\ escaped' = frames[r].escaped
    /\ message' = frames[r].message
    /\ call_args' = frames[r].call_args
    /\ UNCHANGED <<request, response, arg, ret>>

\* The event loop leaves the running generator suspended where it is and
\* resumes the generator of request r: the locals of each are its own.
Switch(r) ==
    /\ r # cur
    /\ frames' = [frames EXCEPT ![cur] = CurrentFrame, ![r] = RunningMark]
    /\ cur' = r
    /\ pc' = frames[r].pc
    /\ events' = frames[r].events
    /\ full_content' = frames[r].full_content
    /\ agent_name' = frames[r].agent_name
    /\ assumptions' = frames[r].assumptions
    /\ routing_reason' = frames[r].routing_reason
    /\ route_result' = frames[r].route_result
    /\ agent' = frames[r].agent
    /\ agent_result' = frames[r].agent_result
    /\ response_content' = frames[r].response_content
    /\ words' = frames[r].words
    /\ i' = frames[r].i
    /\ next_actions' = frames[r].next_actions
    /\ error_msg' = frames[r].error_msg
    /\ calls' = frames[r].calls
    /\ cancelled' = frames[r].cancelled
    /\ escaped' = frames[r].escaped
    /\ message' = frames[r].message
    /\ call_args' = frames[r].call_args
    /\ UNCHANGED <<request, response, arg, ret>>

ConcHubReturns == \E rr \in ConcHubResults : HubAnswers(rr)
ConcHubRaises == HubRaises /\ route_result' = ConcFailure
ConcAgentReturns == \E ar \in ConcAgentResults : AgentAnswers(ar)

\* The steps of the running request, its consumer reading to the end, and
\* the changes of the running request.
ConcNext ==
    \/ Start
    \/ ConcHubReturns
    \/ ConcHubRaises
    \/ ResumePrefix
    \/ ConcAgentReturns
    \/ ResumeChunk
    \/ SleepDone
    \/ ResumeFinal
    \/ ResumeDone
    \/ ResumeErrorDelta
    \/ ResumeErrorFinal
    \/ \E r \in Tasks : Switch(r)

ConcSpec == ConcInit /\ [][ConcNext]_vars

(***************************************************************************)
(* The extractors called on their own: arg is the text, ret the list of    *)
(* the calls made, each with the function called and the list returned.   *)
(***************************************************************************)
DigitChars == <<"0","1","2","3","4","5","6","7","8","9">>

\* The decimal text of k, for k below 1000.
NumberText(k) ==
    IF k < 10 THEN <<DigitChars[k + 1]>>
    ELSE IF k < 100
    THEN <<DigitChars[(k \div 10) + 1], DigitChars[(k % 10) + 1]>>
    ELSE <<DigitChars[(k \div 100) + 1], DigitChars[((k \div 10) % 10) + 1],
           DigitChars[(k % 10) + 1]>>

\* The text of the k-th item: t followed by k times x.
Body(k) == <<"t">> \o [j \in 1..k |-> "x"]

NumberedStyles == {"dot", "paren"}
BulletStyles == {"dash", "star", "bullet"}
Styles == NumberedStyles \cup BulletStyles

\* The list marker of the k-th item.
Marker(style, k) ==
    IF style = "dot" THEN NumberText(k) \o <<".", " ">>
    ELSE IF style = "paren" THEN NumberText(k) \o <<")", " ">>
    ELSE IF style = "dash" THEN <<"-", " ">>
    ELSE IF style = "star" THEN <<"*", " ">>
    ELSE <<"U+2022", " ">>

ItemLine(style, k) == Marker(style, k) \o Body(k)

ActionsHeadings ==
    { <<"N","e","x","t"," ","a","c","t","i","o","n","s",":">>,
      <<"#","#"," ","N","e","x","t"," ","S","t","e","p","s">> }
AssumptionsHeading == <<"A","s","s","u","m","p","t","i","o","n","s",":">>

\* A heading line followed by n item lines.
ListText(heading, style, n) ==
    Join(<<heading>> \o [k \in 1..n |-> ItemLine(style, k)], "\n")

\* Texts without a section: empty, whitespace only, list items under no
\* heading, prose, noise.
DegenerateTexts ==
    { <<>>,
      <<" ">>,
      <<" ", "\n", "\t", " ", "\n">>,
      Join(<<ItemLine("dash", 1), ItemLine("dash", 2)>>, "\n"),
      Join(<<ItemLine("dot", 1), <<"*","*","B","*","*">> >>, "\n"),
      <<"o","k",":"," ","d","o","n","e">>,
      <<"U+0000", "U+FFFD", "\n", "#", ":", "U+0007">> }

ExtractTexts ==
    { ListText(heading, style, n) :
        heading \in ActionsHeadings \cup {AssumptionsHeading},
        style \in Styles, n \in 0..MaxItems }
      \cup DegenerateTexts

\* One call: the function called and the list it returned.
Call(fn, value) == [fn |-> fn, value |-> value]

ExtractInit ==
    /\ Running(NewFrame(<<>>))
    /\ request = DefaultRequest
    /\ response = NoResponse
    /\ frames = <<>>
    /\ cur = 1
    /\ arg \in ExtractTexts
    /\ ret = <<>>

CallExtractNextActions ==
    /\ Len(ret) < MaxCalls
    /\ ret' = Append(ret, Call("extract_next_actions",
                               extract_next_actions(arg)))
    /\ UNCHANGED <<generator, request, response, frames, cur, arg>>

CallExtractAssumptions ==
    /\ Len(ret) < MaxCalls
    /\ ret' = Append(ret, Call("extract_assumptions",
                               extract_assumptions(arg)))
    /\ UNCHANGED <<generator, request, response, frames, cur, arg>>

ExtractNext == CallExtractNextActions \/ CallExtractAssumptions

ExtractSpec == ExtractInit /\ [][ExtractNext]_vars

(***************************************************************************)
(* The extractors called on texts of a few lines, each line one of the     *)
(* kinds the two loops tell apart.                                         *)
(***************************************************************************)
\* Lines both loops treat: a heading of the actions with text after its
\* colon, a bulleted line with 'next step', a '#' line, a numbered item
\* and a bulleted item.
CommonLines ==
    { <<"N","e","x","t"," ","a","c","t","i","o","n",":"," ","g","o">>,
      <<"-"," ","N","e","x","t"," ","S","T","E","P"," ","c">>,
      <<"#"," ","N","o","t","e","s">>,
      <<"1","."," ","a">>,
      <<" ","-"," ","b">> }

\* With a blank line and a bold line, for extract_next_actions.
ActionLines == CommonLines \cup { <<>>, <<"*","*","B","*","*">> }

\* With the heading of the assumptions, for extract_assumptions.
AssumptionLines ==
    CommonLines \cup { <<"A","s","s","u","m","p","t","i","o","n","s",":">> }

\* The texts of up to n lines of a library.
TextsOf(library, n) ==
    UNION { { Join(lines, "\n") : lines \in [1..m -> library] } : m \in 0..n }

\* Up to MaxTextLines lines for extract_assumptions, whose section closes
\* and opens again, and one line less for extract_next_actions.
SectionTexts ==
    TextsOf(ActionLines, MaxTextLines - 1)
        \cup TextsOf(AssumptionLines, MaxTextLines)

SectionInit ==
    /\ Running(NewFrame(<<>>))
    /\ request = DefaultRequest
    /\ response = NoResponse
    /\ frames = <<>>
    /\ cur = 1
    /\ arg \in SectionTexts
    /\ ret = <<>>

\* Each text is given to one extractor, once.
SectionNext ==
    \/ (ret = <<>> /\ CallExtractNextActions)
    \/ (ret = <<>> /\ CallExtractAssumptions)

SectionSpec == SectionInit /\ [][SectionNext]_vars

(***************************************************************************)
(* call_tool (tools.py) called on its own: arg is the context and what     *)
(* the HTTP request will meet, pc the position in call_tool, ret the       *)
(* calls made with what they returned.                                     *)
(***************************************************************************)
\* tool_api_url missing, empty or set; the user entry missing, None or a
\* dict.
ToolContexts ==
    { [tool_api_url |-> url, user |-> user] :
        url \in {PyNone, PyStr(<<>>), PyStr(<<"http://web">>)},
        user \in {"absent", "None", "dict"} }

\* A response of the tool API.
Response(status_code, body) ==
    [kind |-> "return", status_code |-> status_code, body |-> body,
     cls |-> "", msg |-> <<>>]

\* The request failed with an exception of class cls.
PostRaised(cls, msg) ==
    [kind |-> "raise", status_code |-> 0, body |-> <<>>,
     cls |-> cls, msg |-> msg]

\* Bodies: a JSON object, text that is not JSON, nothing.
Bodies ==
    { JObject1(JMember(<<"d","a","t","a">>, JStr(<<"o","k">>))),
      <<"<","h","t","m","l",">">>,
      <<>> }

\* Subclasses of httpx.TimeoutException.
TimeoutExceptions == {"ReadTimeout", "ConnectTimeout"}
\* Other subclasses of Exception that the body of the try can raise.
ToolExceptions == {"ConnectError", "AttributeError", "JSONDecodeError"}

HttpOutcomes ==
    { PostRaised("ReadTimeout", <<>>),
      PostRaised("ConnectTimeout", <<>>),
      PostRaised("ConnectError", <<"All connection attempts failed">>) }
      \cup { Response(status_code, body) :
                status_code \in {200, 404, 500}, body \in Bodies }

\* The failure value of call_tool.
Failure(code, text) ==
    [success |-> FALSE, error |-> [code |-> code, message |-> text]]

\* `if not tool_api_url`.
Configured(context) ==
    context.tool_api_url.t = "str" /\ context.tool_api_url.v # <<>>

DecodeErrorText == <<"Expecting value: line 1 column 1 (char 0)">>

\* Variant: only the clause for httpx.TimeoutException.
ToolExcept_TimeoutOnly(cls, msg) ==
    IF cls \in TimeoutExceptions
    THEN [raised |-> FALSE,
          value |-> Failure("TIMEOUT", <<"Tool execution timed out">>)]
    ELSE [raised |-> TRUE, value |-> PyNone]

\* Lines 69-78: the two except clauses.
ToolExcept(cls, msg) ==
    IF cls \in TimeoutExceptions
    THEN [raised |-> FALSE,
          value |-> Failure("TIMEOUT", <<"Tool execution timed out">>)]
    ELSE IF cls \in ToolExceptions
    THEN [raised |-> FALSE, value |-> Failure("EXECUTION_ERROR", msg)]
    ELSE [raised |-> TRUE, value |-> PyNone]

\* An exception of class cls inside the try block, after the calls made.
ToolRaiseInTry(cls, msg, made) ==
    IF ToolExcept(cls, msg).raised
    THEN /\ pc' = "raised"
         /\ escaped' = cls
         /\ ret' = made
    ELSE /\ pc' = "tool_returned"
         /\ ret' = Append(made, Call("call_tool", ToolExcept(cls, msg).value))
         /\ UNCHANGED escaped

ToolReturn(value, made) ==
    /\ pc' = "tool_returned"
    /\ ret' = Append(made, Call("call_tool", value))
    /\ UNCHANGED escaped

ToolInit ==
    /\ Running([NewFrame(<<>>) EXCEPT !.pc = "tool_call"])
    /\ request = DefaultRequest
    /\ response = NoResponse
    /\ frames = <<>>
    /\ cur = 1
    /\ arg \in [context : ToolContexts, http : HttpOutcomes]
    /\ ret = <<>>

\* Lines 29-51: up to the await of client.post.  Without a URL the
\* failure value is returned before the try; context.get("user",
\* {}).get("id") raises inside the try when the user entry is None.
CallTool ==
    /\ pc = "tool_call"
    /\ IF ~Configured(arg.context)
       THEN ToolReturn(Failure("NO_TOOL_API",
                               <<"TOOL_API_URL not configured">>), ret)
       ELSE IF arg.context.user = "None"
       THEN ToolRaiseInTry("AttributeError",
                           <<"'", "NoneType",
                             "' object has no attribute 'get'">>, ret)
       ELSE /\ pc' = "tool_await_post"
            /\ UNCHANGED <<ret, escaped>>
    /\ UNCHANGED <<events, full_content, agent_name, assumptions,
                   routing_reason, route_result, agent, agent_result,
                   response_content, words, i, next_actions, error_msg,
                   calls, cancelled, message, call_args>>
    /\ UNCHANGED <<request, response, frames, cur, arg>>

\* Lines 58-67: client.post returned a response.
PostReturns ==
    /\ pc = "tool_await_post"
    /\ arg.http.kind = "return"
    /\ LET made == Append(ret, Call("client.post", arg.http))
       IN  IF arg.http.status_code # 200
           THEN ToolReturn(Failure("HTTP_ERROR",
                                   <<"Tool API returned ">>
                                       \o NumberText(arg.http.status_code)),
                           made)
           ELSE IF JsonLoads(arg.http.body).ok
           THEN ToolReturn(JsonLoads(arg.http.body).value, made)
           ELSE ToolRaiseInTry("JSONDecodeError", DecodeErrorText, made)
    /\ UNCHANGED <<events, full_content, agent_name, assumptions,
                   routing_reason, route_result, agent, agent_result,
                   response_content, words, i, next_actions, error_msg,
                   calls, cancelled, message, call_args>>
    /\ UNCHANGED <<request, response, frames, cur, arg>>

\* Line 41: client.post raised.
PostRaises ==
    /\ pc = "tool_await_post"
    /\ arg.http.kind = "raise"
    /\ ToolRaiseInTry(arg.http.cls, arg.http.msg,
                      Append(ret, Call("client.post", arg.http)))
    /\ UNCHANGED <<events, full_content, agent_name, assumptions,
                   routing_reason, route_result, agent, agent_result,
                   response_content, words, i, next_actions, error_msg,
                   calls, cancelled, message, call_args>>
    /\ UNCHANGED <<request, response, frames, cur, arg>>

ToolNext == CallTool \/ PostReturns \/ PostRaises

ToolSpec == ToolInit /\ [][ToolNext]_vars

(***************************************************************************)
(* POST /run: the handler run, then the stream of an accepted request.     *)
(***************************************************************************)
RunInit ==
    /\ Running([NewFrame(<<>>) EXCEPT !.pc = "request"])
    /\ request \in Requests
    /\ response = NoResponse
    /\ frames = <<>>
    /\ cur = 1
    /\ arg = NoArg
    /\ ret = <<>>

\* Lines 90-119: run.  verify_request, request.json(), body.get (which
\* raises AttributeError when the body is not a dict), the messages
\* test, then the generator for the content of the last message.
Run ==
    /\ pc = "request"
    /\ IF request.auth = "mismatch"
       THEN /\ response' = HTTPException(401, <<"Unauthorized">>)
            /\ pc' = "rejected"
            /\ UNCHANGED <<message, escaped>>
       ELSE IF request.body = "invalid"
       THEN /\ response' = HTTPException(400, <<"Invalid JSON">>)
            /\ pc' = "rejected"
            /\ UNCHANGED <<message, escaped>>
       ELSE IF request.body # "object"
       THEN /\ response' = InternalServerError
            /\ pc' = "rejected"
            /\ escaped' = "AttributeError"
            /\ UNCHANGED message
       ELSE IF ~request.has_messages \/ request.messages = <<>>
       THEN /\ response' = HTTPException(400, <<"messages required">>)
            /\ pc' = "rejected"
            /\ UNCHANGED <<message, escaped>>
       ELSE /\ response' = StreamingResponse
            /\ message' = LastContent(request)
            /\ pc' = "start"
            /\ UNCHANGED escaped
    /\ UNCHANGED <<events, full_content, agent_name, assumptions,
                   routing_reason, route_result, agent, agent_result,
                   response_content, words, i, next_actions, error_msg,
                   calls, cancelled, call_args>>
    /\ UNCHANGED <<request, frames, cur, arg, ret>>

\* run, then the steps of the generator it made.
RunNext ==
    \/ Run
    \/ Start
    \/ ConcHubReturns
    \/ ConcHubRaises
    \/ ResumePrefix
    \/ ConcAgentReturns
    \/ ResumeChunk
    \/ SleepDone
    \/ ResumeFinal
    \/ ResumeDone
    \/ ResumeErrorDelta
    \/ ResumeErrorFinal

RunSpec == RunInit /\ [][RunNext]_vars

(***************************************************************************)
(* Properties                                                              *)
(***************************************************************************)
\* Indexes of the final events and of the sentinels yielded so far.
FinalIndexes == {k \in 1..Len(events) : events[k].type = "final"}
SentinelIndexes == {k \in 1..Len(events) : events[k].type = "[DONE]"}

\* The stream is complete: it ends with a final event and the sentinel.
StreamComplete ==
    /\ Len(events) >= 2
    /\ events[Len(events)].type = "[DONE]"
    /\ events[Len(events) - 1].type = "final"

\* json.loads of each of the router texts.
RouterTextParses == [text \in RouterTexts |-> JsonLoads(text)]

\* json.loads(text), looked up for a router text.
ParsedRouterText(text) ==
    IF text \in RouterTexts THEN RouterTextParses[text] ELSE JsonLoads(text)

\* The call that raised, if any, and the failure of the routing-output
\* handling.
RouterRaised == route_result.kind = "raise"
SpecialistRaised == agent_result.kind = "raise"
RoutingHandlingRaised ==
    /\ route_result.kind = "return"
    /\ route_result.has_content
    /\ route_result.content.t = "str"
    /\ LET parsed == ParsedRouterText(route_result.content.v)
       IN  parsed.ok /\ parsed.value.t # "dict"
SpecialistReturned == agent_result.kind = "return"

\* The router's text parsed to a JSON object.
RouterGaveObject ==
    /\ route_result.kind = "return"
    /\ route_result.has_content
    /\ route_result.content.t = "str"
    /\ LET parsed == ParsedRouterText(route_result.content.v)
       IN  parsed.ok /\ parsed.value.t = "dict"

\* The agent that JSON object names (Ops when it has no agent key).
NamedAgent ==
    DictGet(ParsedRouterText(route_result.content.v).value, AgentKey,
            PyStr(Ops))

InClosedSet(name) ==
    name.t = "str" /\ name.v \in {Ops, Content, Growth, Systems}

\* C1: in a stream that is not cancelled, a final event is either the last
\* event or the last but one followed by the sentinel, the sentinel is the
\* last event and directly follows a final event (so there is at most one
\* of each and nothing after the sentinel), no exception ends the stream
\* early, and a generator that has returned has yielded a complete stream.
C1_TerminationFraming ==
    /\ \A k \in FinalIndexes :
          \/ k = Len(events)
          \/ (k = Len(events) - 1 /\ events[k + 1].type = "[DONE]")
    /\ \A k \in SentinelIndexes :
          k = Len(events) /\ k > 1 /\ events[k - 1].type = "final"
    /\ (~cancelled => pc # "raised")
    /\ (pc \in {"yield_done", "yield_error_done", "closed"}
            => StreamComplete)

\* A specialist call that raised, and the stream closed all the same.
C1_Witness ==
    pc = "closed" /\ ~cancelled /\ SpecialistRaised /\ Len(events) = 4

\* C2: every final event, normal or error, carries at least one next
\* action.
C2_NonEmptyActions ==
    \A k \in FinalIndexes : Len(events[k].payload.next_actions) >= 1

\* A normal final event for a specialist result whose content is not a str.
C2_Witness ==
    /\ pc = "closed"
    /\ SpecialistReturned
    /\ ~(agent_result.has_content /\ agent_result.content.t = "str")
    /\ FinalIndexes # {}

\* C3: once the final event is out for a specialist output that is a str,
\* the contents of the deltas between the prefix delta and the final event,
\* concatenated in order, are that str.
C3_RoundTrip ==
    \A k \in FinalIndexes :
        (SpecialistReturned /\ agent_result.has_content
            /\ agent_result.content.t = "str")
        => /\ k >= 3
           /\ \A j \in 1..(k - 1) : events[j].type = "delta"
           /\ Concat([j \in 1..(k - 2) |-> events[j + 1].content])
                = agent_result.content.v

\* An output with leading, consecutive and trailing spaces and a newline.
C3_Witness ==
    /\ pc = "closed"
    /\ SpecialistReturned
    /\ agent_result.content =
         PyStr(<<" ","x"," "," ","y"," ","\n","-"," ","c">>)

\* C4: when the router's JSON object names an agent outside the closed
\* set, the specialist called is Ops, a final event that follows a
\* successful specialist call names Ops and lists the substitution note
\* among its assumptions; and the Hub is never called as a specialist.
C4_DefaultSubstitution ==
    /\ \A k \in 2..Len(calls) : calls[k] \in {Ops, Content, Growth, Systems}
    /\ (RouterGaveObject /\ ~InClosedSet(NamedAgent))
        => /\ \A k \in 2..Len(calls) : calls[k] = Ops
           /\ \A k \in FinalIndexes :
                SpecialistReturned
                => /\ events[k].payload.agent = Ops
                   /\ "assumptions" \in events[k].payload.keys
                   /\ \E j \in 1..Len(events[k].payload.assumptions) :
                        events[k].payload.assumptions[j] =
                            <<"Unknown agent '">> \o Format(NamedAgent)
                              \o <<"' requested, defaulting to Ops">>

\* The router named the Hub and the specialist call succeeded.
C4_Witness ==
    /\ pc = "closed"
    /\ RouterGaveObject
    /\ NamedAgent = PyStr(Hub)
    /\ SpecialistReturned

\* C5: an exception of the router call, of the routing-output handling or
\* of the specialist call never leaves the generator (only a cancellation
\* does); control is in the handler, whose final event names Systems and
\* carries the three remediation actions, followed by the sentinel.
C5_ErrorsCaught ==
    /\ (escaped # "none"
          => cancelled /\ escaped \in {"CancelledError", "GeneratorExit"})
    /\ (RouterRaised \/ RoutingHandlingRaised \/ SpecialistRaised)
        => /\ (~cancelled => pc \in HandlerYieldPoints \cup {"closed"})
           /\ \A k \in FinalIndexes :
                /\ events[k].payload.agent = <<"S","y","s","t","e","m","s">>
                /\ events[k].payload.next_actions =
                     << <<"Retry the request">>,
                        <<"Check the Hub logs for details">>,
                        <<"Contact support if the issue persists">> >>
           /\ (pc \in {"yield_error_final", "yield_error_done", "closed"}
                 => FinalIndexes # {})
           /\ (pc \in {"yield_error_done", "closed"} => StreamComplete)

\* The router answered with JSON that is not an object, so parsed.get
\* raised, and the stream closed.
C5_Witness ==
    pc = "closed" /\ RoutingHandlingRaised /\ ~cancelled

\* The lines of the specialist's output (none for a content that is not a
\* str).
OutputLines ==
    IF agent_result.has_content /\ agent_result.content.t = "str"
    THEN Split(agent_result.content.v, "\n")
    ELSE <<>>

\* The output has no actions section and no assumptions section: no line
\* holds one of the heading phrases.
NoSections ==
    \A k \in 1..Len(OutputLines) :
        /\ ~Contains(Strip(Lower(OutputLines[k])), NextActionPhrase)
        /\ ~Contains(Strip(Lower(OutputLines[k])), NextStepPhrase)
        /\ ~Contains(Strip(Lower(OutputLines[k])), AssumptionPhrase)

\* C6: when the router's JSON object names a specialist of the closed set
\* and the specialist's output has neither section, the final payload has
\* the one synthesized action and the one synthesis note.
C6_SynthesisScenario ==
    \A k \in FinalIndexes :
        (SpecialistReturned /\ RouterGaveObject /\ InClosedSet(NamedAgent)
            /\ NoSections)
        => /\ events[k].payload.next_actions =
                << <<"Review the response and determine appropriate follow-up">> >>
           /\ "assumptions" \in events[k].payload.keys
           /\ events[k].payload.assumptions =
                << <<"No explicit next actions found in agent response">> >>

\* List items and a bold line, but no heading: nothing is extracted.
C6_Witness ==
    /\ pc = "closed"
    /\ RouterGaveObject
    /\ NamedAgent = PyStr(Growth)
    /\ SpecialistReturned
    /\ agent_result.content = PyStr(<<"-"," ","c","\n","*","*","B","*","*">>)

\* The text the extractors ran on.
ExtractedFrom ==
    IF agent_result.has_content /\ agent_result.content.t = "str"
    THEN agent_result.content.v
    ELSE <<>>

\* The routing decision used a name outside the closed set.
Substituted == RouterGaveObject /\ ~InClosedSet(NamedAgent)

\* C7: a normal final payload has the assumptions key exactly when a
\* substitution note, an extracted assumption or the synthesis note was
\* recorded; an error final payload has it with its two error notes; the
\* key never comes with an empty list.
C7_AssumptionsKey ==
    \A k \in FinalIndexes :
        /\ ("assumptions" \in events[k].payload.keys
              => events[k].payload.assumptions # <<>>)
        /\ SpecialistReturned
            => ("assumptions" \in events[k].payload.keys
                  <=> \/ Substituted
                      \/ extract_assumptions(ExtractedFrom) # <<>>
                      \/ extract_next_actions(ExtractedFrom) = <<>>)
        /\ ~SpecialistReturned
            => /\ "assumptions" \in events[k].payload.keys
               /\ Len(events[k].payload.assumptions) = 2

\* A valid specialist, extractable actions, no assumption: no key.
C7_Witness ==
    /\ pc = "closed"
    /\ RouterGaveObject
    /\ NamedAgent = PyStr(Ops)
    /\ SpecialistReturned
    /\ agent_result.content =
         PyStr(<<"N","e","x","t"," ","a","c","t","i","o","n","s",":","\n",
                 "1","."," ","d","o"," ","i","t">>)
    /\ \A k \in FinalIndexes :
          /\ "assumptions" \notin events[k].payload.keys
          /\ events[k].payload.next_actions = << <<"d","o"," ","i","t">> >>

\* C8: no step that ends with the consumer disconnected yields an event:
\* neither the step of the disconnection nor any later one.
C8_NoEventAfterCancel == [][cancelled' => events' = events]_vars

\* Disconnected in the middle of the chunks.
C8_Witness ==
    /\ cancelled
    /\ pc = "raised"
    /\ Len(events) >= 2
    /\ FinalIndexes = {}

\* C9 as stated: when the router call raises, no delta event precedes the
\* final event.
C9_NoDeltaBeforeErrorFinal ==
    RouterRaised
    => \A k \in FinalIndexes :
          \A j \in 1..(k - 1) : events[j].type # "delta"

\* C9 amended: when the router call raises, no specialist is called and no
\* prefix or chunk delta is yielded; the one event before the final event
\* is the handler's delta 'Error: ' + message, and the final event that
\* follows it directly carries the Systems error payload.
C9_OnlyErrorDeltaBeforeFinal ==
    RouterRaised
    => /\ calls = <<Hub>>
       /\ (Len(events) >= 1
            => events[1] = [type |-> "delta",
                            content |-> <<"Error: ">> \o route_result.msg])
       /\ (Len(events) >= 2
            => /\ events[2].type = "final"
               /\ events[2].payload.agent = Systems
               /\ events[2].payload.next_actions = RemediationActions)
       /\ FinalIndexes \subseteq {2}

\* The router call raised and the stream closed.
C9_Witness ==
    pc = "closed" /\ RouterRaised /\ Len(events) = 3

\* The router's text is not JSON.
RouterTextUnparseable ==
    /\ route_result.kind = "return"
    /\ route_result.has_content
    /\ route_result.content.t = "str"
    /\ ~ParsedRouterText(route_result.content.v).ok

\* C10: when the router's text is not JSON, the text is the routing
\* reason, the specialist is Ops without any substitution note, Ops is the
\* agent called, the handler runs only if the Ops call raises, and a final
\* event after a successful Ops call names Ops.
C10_PlainTextRouting ==
    RouterTextUnparseable
    => /\ routing_reason = route_result.content
       /\ agent_name = PyStr(Ops)
       /\ agent = Ops
       /\ \A k \in 2..Len(calls) : calls[k] = Ops
       /\ (pc \in HandlerYieldPoints => SpecialistRaised)
       /\ (~cancelled /\ ~SpecialistRaised => pc \notin HandlerYieldPoints
                                               /\ pc # "raised")
       /\ Len(events) >= 1
       /\ events[1] = [type |-> "delta", content |-> <<"[","O","p","s","]"," ">>]
       /\ \A k \in FinalIndexes :
             SpecialistReturned => events[k].payload.agent = Ops

\* Plain text from the router, a successful Ops call, a closed stream.
C10_Witness ==
    /\ pc = "closed"
    /\ route_result.content = PyStr(<<"O","p","s"," ","t","e","a","m">>)
    /\ SpecialistReturned
    /\ calls = <<Hub, Ops>>

\* Number of calls of the router.
HubCalls == Cardinality({k \in 1..Len(calls) : calls[k] = Hub})

\* C11 as stated: when the router's text is not JSON the final event
\* carries the Systems error payload with the remediation actions, and the
\* router is called once.
C11_UnparseableIsFailure ==
    RouterTextUnparseable
    => /\ HubCalls = 1
       /\ \A k \in FinalIndexes :
            /\ events[k].payload.agent = Systems
            /\ events[k].payload.next_actions = RemediationActions

\* C11 amended: a router text that is not JSON is no failure (the error
\* handler runs only if the specialist call raises, and the final event
\* after a successful specialist call names Ops with content that starts
\* with the Ops prefix); a router text that is JSON but not an object is
\* the routing output that ends in the Systems error payload with the
\* remediation actions, without any specialist call; in both cases the
\* router is called once.
C11_OnlyNonObjectJsonFails ==
    /\ HubCalls <= 1
    /\ (pc # "start" => HubCalls = 1)
    /\ RouterTextUnparseable
        => /\ (~SpecialistRaised => error_msg = <<>>
                                    /\ pc \notin HandlerYieldPoints)
           /\ \A k \in FinalIndexes :
                SpecialistReturned
                => /\ events[k].payload.agent = Ops
                   /\ StartsWith(events[k].payload.content,
                                 <<"[","O","p","s","]"," ">>)
    /\ RoutingHandlingRaised
        => /\ calls = <<Hub>>
           /\ (~cancelled => pc \in HandlerYieldPoints \cup {"closed"})
           /\ \A k \in FinalIndexes :
                /\ events[k].payload.agent = Systems
                /\ events[k].payload.next_actions = RemediationActions

\* The router answered with the empty string and the stream closed on the
\* normal path.
C11_Witness ==
    /\ pc = "closed"
    /\ route_result.content = PyStr(<<>>)
    /\ route_result.has_content
    /\ SpecialistReturned
    /\ \A k \in FinalIndexes : events[k].payload.agent = Ops

\* C12: the router is the first call and the only call of the Hub; there
\* are at most two calls; the specialist is called only after the router
\* has returned and when the one event yielded is the prefix delta naming
\* the called specialist, which is in the closed set; a delta other than
\* that prefix and the handler's error delta exists only after the
\* specialist call has returned; after a failed call there is no further
\* call.
C12_SequentialNoRetry ==
    /\ (pc # "start" => Len(calls) >= 1 /\ calls[1] = Hub)
    /\ Len(calls) <= 2
    /\ HubCalls <= 1
    /\ (RouterRaised => calls = <<Hub>>)
    /\ Len(calls) = 2
        => /\ route_result.kind = "return"
           /\ calls[2] \in {Ops, Content, Growth, Systems}
           /\ Len(events) >= 1
           /\ events[1] = [type |-> "delta",
                           content |-> <<"[">> \o calls[2] \o <<"]", " ">>]
    /\ (pc = "await_agent" => Len(calls) = 2 /\ Len(events) = 1)
    /\ agent_result.kind = "unset"
        => Cardinality({k \in 1..Len(events) : events[k].type = "delta"}) <= 1
    /\ SpecialistRaised
        => {k \in 1..Len(events) : events[k].type = "delta"} \subseteq {1, 2}

\* A specialist named by the router answered with several words.
C12_Witness ==
    /\ pc = "closed"
    /\ calls = <<Hub, Growth>>
    /\ SpecialistReturned
    /\ Len(words) >= 3

\* C13: when every engine call returns or raises and the consumer keeps
\* reading, the generator eventually returns, having yielded a final event
\* and then the sentinel.
C13_EventuallyClosed == <>(pc = "closed" /\ StreamComplete)

\* Closed after a full normal stream of prefix, chunks, final, sentinel.
C13_Witness ==
    /\ pc = "closed"
    /\ StreamComplete
    /\ SpecialistReturned
    /\ Len(events) >= 6
    /\ ~cancelled

\* s is a prefix of t.
IsPrefix(s, t) == Len(s) <= Len(t) /\ SubSeq(t, 1, Len(s)) = s

\* The events of the error path for the message msg.
ErrorEvents(msg) == <<Delta(ErrorContent(msg)), ErrorFinal(msg), Sentinel>>

\* The deltas of the words of text.
ChunkEvents(text) ==
    [k \in 1..Len(Split(text, " ")) |-> Delta(Chunk(Split(text, " "), k))]

\* The events of a request on its own whose router gave rr and whose
\* specialist gave ar, as far as rr and ar settle them: none before the
\* router has answered, the prefix delta before the specialist has.
SoloEvents(rr, ar) ==
    IF rr.kind = "unset" THEN <<>>
    ELSE IF rr.kind = "raise" THEN ErrorEvents(rr.msg)
    ELSE
      LET decision == RoutingDecision(rr, PyStr(Ops))
          target == Dispatch(decision.agent_name, <<>>)
          prefix == AgentPrefix(target.agent_name)
          is_str == ar.has_content /\ ar.content.t = "str"
          text == IF is_str THEN ar.content.v ELSE <<>>
          chunks == IF is_str THEN ChunkEvents(text) ELSE <<>>
      IN  IF decision.raised THEN ErrorEvents(decision.msg)
          ELSE IF ar.kind = "unset" THEN <<Delta(prefix)>>
          ELSE IF ar.kind = "raise"
          THEN <<Delta(prefix)>> \o ErrorEvents(ar.msg)
          ELSE (<<Delta(prefix)>> \o chunks)
                 \o << FinalEvent(target.agent_name, prefix \o text,
                                  EnsureNextActions(extract_next_actions(text)),
                                  AssumptionsAfterExtraction(
                                      target.assumptions, text)),
                       Sentinel >>

\* The events of frame f are those of a request on its own.
AsAlone(f) ==
    /\ IsPrefix(f.events, SoloEvents(f.route_result, f.agent_result))
    /\ (f.pc = "closed" /\ ~f.cancelled)
         => f.events = SoloEvents(f.route_result, f.agent_result)

\* C14: under every interleaving of the requests, the events of each
\* request are those it emits on its own with the same router and
\* specialist outputs, all of them once it has closed; and a step of the
\* running request, or a change of the running request, leaves the locals
\* of every other request as they were.
C14_Isolation ==
    /\ [](\A r \in Tasks : AsAlone(FrameOf(r)))
    /\ [][\A r \in Tasks : r # cur => FrameOf(r)' = FrameOf(r)]_vars

\* Two requests in the middle of their streams at once, one of them with
\* a note in assumptions, the other without.
C14_Witness ==
    /\ FrameOf(1).pc = "sleep"
    /\ FrameOf(2).pc = "yield_chunk"
    /\ FrameOf(1).assumptions # <<>>
    /\ FrameOf(2).assumptions = <<>>
    /\ FrameOf(1).i = 2

\* The first five, at most, of the texts of n items.
FirstFive(n) == [k \in 1..(IF n < 5 THEN n ELSE 5) |-> Body(k)]

\* C15: no call returns more than 5 items; on a heading of the actions
\* section followed by n numbered or bulleted items extract_next_actions
\* returns the texts of the first 5 of them, or of all n when n is less,
\* in order and without their markers; on the assumptions heading
\* followed by n bulleted items extract_assumptions does.
C15_FirstFiveInOrder ==
    \A c \in 1..Len(ret) :
        /\ Len(ret[c].value) <= 5
        /\ \A style \in Styles, n \in 0..MaxItems :
            /\ \A heading \in ActionsHeadings :
                 (/\ arg = ListText(heading, style, n)
                  /\ ret[c].fn = "extract_next_actions")
                     => ret[c].value = FirstFive(n)
            /\ (/\ arg = ListText(AssumptionsHeading, style, n)
                /\ style \in BulletStyles
                /\ ret[c].fn = "extract_assumptions")
                   => ret[c].value = FirstFive(n)

\* 8 numbered items under 'Next actions:', 5 returned.
C15_Witness ==
    /\ arg = ListText(<<"N","e","x","t"," ","a","c","t","i","o","n","s",":">>,
                      "dot", 8)
    /\ \E c \in 1..Len(ret) :
        /\ ret[c].fn = "extract_next_actions"
        /\ Len(ret[c].value) = 5
        /\ ret[c].value[5] = <<"t","x","x","x","x","x">>

IsFailureShape(v) ==
    /\ DOMAIN v = {"success", "error"}
    /\ v.success = FALSE
    /\ DOMAIN v.error = {"code", "message"}

\* The calls of fn made so far.
CallsOf(fn) == {c \in 1..Len(ret) : ret[c].fn = fn}

\* The failure the call of call_tool meets, "" when it meets none.
ToolFailureCode ==
    IF ~(arg.context.tool_api_url.t = "str"
            /\ arg.context.tool_api_url.v # <<>>)
    THEN "NO_TOOL_API"
    ELSE IF arg.context.user = "None" THEN "EXECUTION_ERROR"
    ELSE IF arg.http.kind = "raise"
    THEN (IF arg.http.cls \in {"ReadTimeout", "ConnectTimeout"}
          THEN "TIMEOUT" ELSE "EXECUTION_ERROR")
    ELSE IF arg.http.status_code # 200 THEN "HTTP_ERROR"
    ELSE IF arg.http.body \in {<<>>, <<"<","h","t","m","l",">">>}
    THEN "EXECUTION_ERROR"
    ELSE ""

\* C17: call_tool lets no exception out; without a URL it makes no HTTP
\* request; once it has returned, whenever the URL is missing, the
\* request timed out or failed otherwise, the status is not 200 or the
\* body cannot be decoded, the value returned has the shape
\* {success: false, error: {code, message}} with the code of that case.
C17_UniformFailure ==
    /\ pc # "raised"
    /\ escaped = "none"
    /\ ToolFailureCode = "NO_TOOL_API" => CallsOf("client.post") = {}
    /\ pc = "tool_returned" => Cardinality(CallsOf("call_tool")) = 1
    /\ \A c \in CallsOf("call_tool") :
         ToolFailureCode # ""
            => /\ IsFailureShape(ret[c].value)
               /\ ret[c].value.error.code = ToolFailureCode

\* A 200 response whose body is not JSON: a failure value.
C17_Witness ==
    /\ pc = "tool_returned"
    /\ arg.http.kind = "return"
    /\ arg.http.status_code = 200
    /\ arg.http.body = <<"<","h","t","m","l",">">>
    /\ CallsOf("client.post") # {}
    /\ \E c \in CallsOf("call_tool") : ret[c].value.error.code = "EXECUTION_ERROR"

\* The request has no messages, or an empty list of them.
MessagesAbsentOrEmpty == ~request.has_messages \/ request.messages = <<>>

\* C18: a request without messages, or with an empty list of them, is
\* answered with a client error (a 4xx status), no agent is called and no
\* event is emitted; for an accepted request every agent call is given
\* the content of the last message.
C18_RejectedBeforeOrchestrator ==
    /\ (response # NoResponse /\ MessagesAbsentOrEmpty)
         => /\ response.status \in 400..499
            /\ calls = <<>>
            /\ events = <<>>
    /\ response.status = 200
         => \A k \in 1..Len(call_args) :
              call_args[k]
                 = (IF request.messages[Len(request.messages)].has_content
                    THEN request.messages[Len(request.messages)].content
                    ELSE <<>>)

\* The raw text of the specialist's answer: its content when that is a
\* str, else nothing.
RawText ==
    IF agent_result.has_content /\ agent_result.content.t = "str"
    THEN agent_result.content.v
    ELSE <<>>

\* The content of the events before the k-th, in order.
StreamedBefore(k) == Concat([j \in 1..(k - 1) |-> events[j].content])

\* C19: once the specialist has returned, every event before the final
\* event is a delta, and the content of the final payload is the prefix
\* '[Name] ' followed by the specialist's raw text, which is the
\* concatenation, in order, of the content of those deltas.
C19_ContentIsStreamedText ==
    SpecialistReturned =>
        \A k \in FinalIndexes :
            /\ \A j \in 1..(k - 1) : events[j].type = "delta"
            /\ events[k].payload.content
                   = (<<"[">> \o agent_name.v \o <<"]", " ">>) \o RawText
            /\ events[k].payload.content = StreamedBefore(k)

\* A final event after an answer of several words over two lines.
C19_Witness ==
    /\ SpecialistReturned
    /\ FinalIndexes # {}
    /\ Len(words) >= 3
    /\ Contains(RawText, <<"\n">>)
    /\ pc = "yield_done"

\* C20: every final event has the version key, and its value is 'v1',
\* the value of AGNO_CONTRACT_VERSION.
C20_VersionInEveryFinal ==
    /\ AGNO_CONTRACT_VERSION = <<"v1">>
    /\ \A k \in FinalIndexes :
        /\ "version" \in events[k].payload.keys
        /\ events[k].payload.version = <<"v1">>

\* The final event of the error path, after the specialist raised.
C20_Witness ==
    /\ SpecialistRaised
    /\ FinalIndexes # {}
    /\ \E k \in FinalIndexes : events[k].payload.agent = Systems

\* The line contains 'next action' or 'next step', whatever the case.
HasActionsPhrase(line) ==
    \/ Contains(Lower(line), NextActionPhrase)
    \/ Contains(Lower(line), NextStepPhrase)

\* Index of the first of the lines with one of the phrases, one past the
\* last line when there is none.
FirstActionsHeading(lines) ==
    IF \E k \in 1..Len(lines) : HasActionsPhrase(lines[k])
    THEN CHOOSE k \in 1..Len(lines) :
            /\ HasActionsPhrase(lines[k])
            /\ \A j \in 1..(k - 1) : ~HasActionsPhrase(lines[j])
    ELSE Len(lines) + 1

\* A numbered or bulleted line with some text after its marker and without
\* any of the phrases.
IsActionItemLine(line) ==
    /\ IsListItem(Strip(line))
    /\ ListItemAction(Strip(line)) # <<>>
    /\ ~HasActionsPhrase(line)

\* Indexes, in order, of the item lines after the first heading, whatever
\* lies between them.
ItemLinesAfterHeading(lines) ==
    LET first == FirstActionsHeading(lines)
    IN  SelectSeq([k \in 1..Len(lines) |-> k],
                  LAMBDA k : k > first /\ IsActionItemLine(lines[k]))

\* The first five, at most, of a list.
FirstFiveOf(lst) == [j \in 1..(IF Len(lst) < 5 THEN Len(lst) ELSE 5) |-> lst[j]]

\* C21: extract_next_actions returns the texts, in order and up to the cap
\* of 5, of all the numbered or bulleted lines after the first heading
\* line, whatever lines lie between (blank lines, '#' lines, other lines
\* that are no items, later headings); no line before the first heading
\* contributes an item.
C21_SectionNeverCloses ==
    LET lines == Split(arg, "\n")
        found == ItemLinesAfterHeading(lines)
        items == [j \in 1..Len(found) |-> ListItemAction(Strip(lines[found[j]]))]
    IN  \A c \in 1..Len(ret) :
            ret[c].fn = "extract_next_actions"
            => ret[c].value = FirstFiveOf(items)

\* The heading, a blank line and an item: the item is returned.
C21_Witness ==
    /\ arg = Join(<< <<"N","e","x","t"," ","a","c","t","i","o","n",":"," ","g","o">>,
                     <<>>,
                     <<" ","-"," ","b">> >>, "\n")
    /\ \E c \in 1..Len(ret) :
          /\ ret[c].fn = "extract_next_actions"
          /\ ret[c].value = << <<"b">> >>

\* The text with every line that has one of the phrases replaced by the
\* bare phrase 'next step'.
BareHeadings(text) ==
    LET lines == Split(text, "\n")
    IN  Join([k \in 1..Len(lines) |->
                IF HasActionsPhrase(lines[k]) THEN NextStepPhrase
                ELSE lines[k]], "\n")

\* C22: a line with 'next action' or 'next step' contributes no item,
\* before or inside the section: what extract_next_actions returns is
\* what it returns when each such line is replaced by the bare phrase,
\* and neither the text after the colon of the heading 'Next action: go'
\* nor the text of the item '- Next STEP c' is ever among the items.
C22_HeadingLinesGiveNoItem ==
    \A c \in 1..Len(ret) :
        ret[c].fn = "extract_next_actions"
        => /\ ret[c].value = extract_next_actions(BareHeadings(arg))
           /\ \A j \in 1..Len(ret[c].value) :
                 /\ ret[c].value[j] # <<"g","o">>
                 /\ ~HasActionsPhrase(ret[c].value[j])

\* A heading with text after its colon, an item with a phrase, an item.
C22_Witness ==
    /\ arg = Join(<< <<"N","e","x","t"," ","a","c","t","i","o","n",":"," ","g","o">>,
                     <<"-"," ","N","e","x","t"," ","S","T","E","P"," ","c">>,
                     <<"1","."," ","a">> >>, "\n")
    /\ \E c \in 1..Len(ret) :
          /\ ret[c].fn = "extract_next_actions"
          /\ ret[c].value = << <<"a">> >>

\* The text between the emphasis markers of a bold line.
BoldText(line) == Strip(StripChars(Strip(line), {"*"}))

\* C23: a line of the section that starts and ends with '**' is recorded
\* as the text between the markers, and every item returned is non-empty
\* and begins with no list marker, no asterisk and no space.
C23_BoldLineRecordedBare ==
    LET lines == Split(arg, "\n")
        first == FirstActionsHeading(lines)
    IN  \A c \in 1..Len(ret) :
            ret[c].fn = "extract_next_actions"
            => /\ \A k \in (first + 1)..Len(lines) :
                    (/\ IsBoldLine(Strip(lines[k]))
                     /\ BoldText(lines[k]) # <<>>
                     /\ ~HasActionsPhrase(lines[k])
                     /\ Len(ItemLinesAfterHeading(lines)) <= 5)
                    => \E j \in 1..Len(ret[c].value) :
                          ret[c].value[j] = BoldText(lines[k])
               /\ \A j \in 1..Len(ret[c].value) :
                    /\ ret[c].value[j] # <<>>
                    /\ ret[c].value[j][1] \notin MarkerChars
                    /\ NumberedPrefixLen(ret[c].value[j]) = 0

\* The line contains 'assumption', whatever the case.
OpensAssumptions(line) == Contains(Lower(line), AssumptionPhrase)

\* The line starts with '#' or contains 'next action', and does not open.
ClosesAssumptions(line) ==
    /\ ~OpensAssumptions(line)
    /\ \/ StartsWith(Strip(line), <<"#">>)
       \/ Contains(Lower(line), NextActionPhrase)

\* The section is open at line k: a line before it opens, and no line
\* between the two closes.
AssumptionsOpenAt(lines, k) ==
    \E j \in 1..(k - 1) :
        /\ OpensAssumptions(lines[j])
        /\ \A m \in (j + 1)..(k - 1) : ~ClosesAssumptions(lines[m])

\* A line that starts with a bullet marker and has text after it.
IsBulletLine(line) ==
    /\ Strip(line) # <<>>
    /\ Strip(line)[1] \in BulletMarkers
    /\ Strip(LStrip(Strip(line), MarkerChars)) # <<>>

\* C24: extract_assumptions returns the texts, without the marker, in
\* order and up to the cap of 5, of the bulleted lines at which the section
\* is open: a line with 'assumption' opens it, also after it was closed,
\* and gives no item; a '#' line or a line with 'next action' closes it
\* and a line with 'next step' does not; no numbered line gives an item.
C24_AssumptionsSection ==
    LET lines == Split(arg, "\n")
        found == SelectSeq([k \in 1..Len(lines) |-> k],
                    LAMBDA k : /\ AssumptionsOpenAt(lines, k)
                               /\ ~OpensAssumptions(lines[k])
                               /\ ~ClosesAssumptions(lines[k])
                               /\ IsBulletLine(lines[k]))
        items == [j \in 1..Len(found) |->
                    Strip(LStrip(Strip(lines[found[j]]), MarkerChars))]
    IN  \A c \in 1..Len(ret) :
            ret[c].fn = "extract_assumptions"
            => /\ ret[c].value = FirstFiveOf(items)
               /\ \A j \in 1..Len(ret[c].value) :
                    ret[c].value[j] # <<"a">>

\* Opened, closed by a '#' line, opened again, then a bulleted line.
C24_Witness ==
    /\ arg = Join(<< <<"A","s","s","u","m","p","t","i","o","n","s",":">>,
                     <<"#"," ","N","o","t","e","s">>,
                     <<"A","s","s","u","m","p","t","i","o","n","s",":">>,
                     <<" ","-"," ","b">> >>, "\n")
    /\ \E c \in 1..Len(ret) :
          /\ ret[c].fn = "extract_assumptions"
          /\ ret[c].value = << <<"b">> >>

\* The message of the exception the handler caught: that of the call that
\* raised, or of the AttributeError of the routing-output handling.
FailureMessage ==
    IF RouterRaised THEN route_result.msg
    ELSE IF SpecialistRaised THEN agent_result.msg
    ELSE <<"'", ParsedRouterText(route_result.content.v).value.t,
           "' object has no attribute 'get'">>

\* C25: on the error path the final payload has the content 'Error: '
\* followed by the message of the exception, which is the content of the
\* delta right before it, the one delta of the handler (before it there is
\* at most the prefix delta), and its assumptions are the fixed note and
\* the message; nothing streamed before the failure is in the content and
\* no assumption recorded before it is among the assumptions.
C25_ErrorPayloadFromMessageAlone ==
    \A k \in FinalIndexes :
        (RouterRaised \/ SpecialistRaised \/ RoutingHandlingRaised)
        => /\ events[k].payload.content = <<"Error: ">> \o FailureMessage
           /\ k >= 2
           /\ events[k - 1] =
                 [type |-> "delta", content |-> events[k].payload.content]
           /\ \A j \in 1..(k - 2) :
                 /\ j = 1
                 /\ events[j] =
                      [type |-> "delta",
                       content |-> <<"[">> \o agent_name.v \o <<"]", " ">>]
           /\ "assumptions" \in events[k].payload.keys
           /\ events[k].payload.assumptions =
                 << <<"An error occurred during processing">>, FailureMessage >>
           /\ \A n \in 1..Len(assumptions) :
                 \A j \in 1..Len(events[k].payload.assumptions) :
                    events[k].payload.assumptions[j] # assumptions[n]

\* The router named an agent outside the closed set, the substitution
\* note was recorded and the prefix streamed, then the Ops call raised.
C25_Witness ==
    /\ pc = "closed"
    /\ SpecialistRaised
    /\ assumptions # <<>>
    /\ full_content = <<"[","O","p","s","]"," ">>
    /\ Len(events) = 4
    /\ FinalIndexes = {3}

====
